---- MODULE Spec2Model ----
(***************************************************************************)
(* Session and task orchestration of the browser-use REST server           *)
(* (src/browser_use/api/server.py, duplicated in standalone_server.py).    *)
(*                                                                         *)
(* The server runs on one cooperative event loop.  Every request handler   *)
(* is a coroutine; an action of this module is the code a coroutine runs   *)
(* between two suspension points (an await on the automation handle or on  *)
(* an agent).  The registries of ServerState are module-level maps that    *)
(* every coroutine reads and writes without a lock.                        *)
(***************************************************************************)
EXTENDS Integers, Sequences, FiniteSets, TLC

\* ------------------------------------------------------------------ bounds
MaxRequests == 3   \* requests the clients issue over the run
MaxClock == 1      \* readings of int(time.time() * 1000) go 0..MaxClock
Clock == 0..MaxClock

\* ----------------------------------------------------------- identifiers
\* A string "prefix<n>" produced by an f-string is the pair <<prefix, n>>; a
\* caller may choose the same string as an explicit id.
None == <<"None">>
Default == <<"default">>
S1 == <<"s1">>

GenSessionId(ms) == <<"session_", ms>>

GenTaskId(ms) == <<"task_", ms>>

GenRetryTaskId(ms) == <<"retry_task_", ms>>

\* ids the clients use in requests (None: session_id omitted)
T0 == GenTaskId(0)   \* the caller-chosen session id "task_0"
CreateIds == {None, Default, S1, T0}
ActionIds == {Default, S1}
CloseIds == {Default, S1, T0}

\* ------------------------------------------------------------------ maps
EmptyMap == [k \in {} |-> 0]
Put(m, k, v) == [x \in (DOMAIN m) \cup {k} |-> IF x = k THEN v ELSE m[x]]
Del(m, k) == [x \in (DOMAIN m) \ {k} |-> m[x]]

\* ----------------------------------------------------------------- state
VARIABLES
    browser_sessions,  \* ServerState.browser_sessions: session id -> handle
    controllers,       \* ServerState.controllers: session id -> dispatcher
    file_systems,      \* ServerState.file_systems: session id -> sandbox
    agents,            \* ServerState.agents: task id -> agent
    handles,           \* every BrowserSession object constructed so far
    agent_objs,        \* every Agent object constructed so far
    clock,             \* the last reading of int(time.time() * 1000)
    reqs,              \* the coroutines of the requests issued so far
    phase,             \* where the lifespan context manager is
    stop               \* the coroutine of ServerState.cleanup

vars == <<browser_sessions, controllers, file_systems, agents, handles,
          agent_objs, clock, reqs, phase, stop>>

Reqs == 1..Len(reqs)
Handles == 1..Len(handles)

\* list_sessions' iterator over browser_sessions.items() before the loop:
\* the key and the handle of the item the loop body works on, the keys it
\* has yielded, the size of the dict when the iteration began and the number
\* of items it has still to yield
NoIter == [cur |-> None, obj |-> 0, visited |-> {}, size |-> 0, left |-> 0]

\* A request handler's coroutine: its arguments, what its environment answers
\* (ms: the clock when it reads it, api_key: whether os.getenv finds
\* OPENAI_API_KEY), its locals, where it is suspended, and the response it
\* has sent (status 0: none yet).  Locals: session_id and new are
\* create_session's session_id and session (the handle it constructs);
\* session is the handler's own session (what get_session returned, or what
\* close_session looked up); raised is the status of the exception that the
\* handler's catch-all caught.
NewReq(op, sid, ms, key) ==
    [op |-> op, sid |-> sid, ms |-> ms, api_key |-> key,
     pc |-> "entry", session_id |-> None, new |-> 0, session |-> 0,
     agent |-> 0, task_id |-> None, status |-> 0, raised |-> 0, detail |-> "",
     errors |-> FALSE, sessions |-> << >>, it |-> NoIter]

\* the handler ends and the client is answered: a returned body (200) or the
\* HTTPException(status_code=code, detail=...) that left the handler
Respond(rec, code, detail) ==
    [rec EXCEPT !.pc = "done", !.status = code, !.detail = detail]

\* coroutine i (a new one when i is past the end) is now in state rec
SetReq(i, rec) ==
    IF i > Len(reqs) THEN Append(reqs, rec) ELSE [reqs EXCEPT ![i] = rec]

\* `except Exception as e: raise HTTPException(status_code=500, detail=str(e))`
\* around a handler body: whatever was raised inside, an HTTPException
\* included, leaves as a 500 whose detail names the cause.
CatchAll(rec, code, cause) ==
    [Respond(rec, 500, cause) EXCEPT !.raised = code]

\* list_sessions at its `for` statement: the iterator yields the next item
\* and the loop body suspends resolving that session's page, or the loop is
\* over and the summaries are returned.  The iterator raises RuntimeError
\* when the dict has another size than when the iteration began, or holds
\* an item more after it has yielded as many as it had; list_sessions has no
\* try around the loop, so the error leaves the handler and the framework
\* answers 500.  The items come in insertion order, which the maps do not
\* keep: any order is allowed.
ListAdvance(i, rec) ==
    LET rest == DOMAIN browser_sessions \ rec.it.visited
    IN IF \/ Cardinality(DOMAIN browser_sessions) # rec.it.size
          \/ rec.it.left = 0 /\ rest # {}
       THEN reqs' = SetReq(i, Respond(rec, 500, "RuntimeError"))
       ELSE IF rest = {}
            THEN reqs' = SetReq(i, Respond(rec, 200, "listed"))
            ELSE \E k \in rest :
                    reqs' = SetReq(i, [rec EXCEPT
                                !.pc = "page",
                                !.it = [@ EXCEPT !.cur = k,
                                                 !.obj = browser_sessions[k],
                                                 !.visited = @ \cup {k},
                                                 !.left = @ - 1]])

\* ServerState.cleanup before it is called: which loop it is in (pc), the
\* key and the object of the item whose teardown it awaits, the keys its
\* loop has visited, the size of the dict when the loop began, and what it
\* has attempted so far (agents closed, sessions stopped, teardowns that
\* raised)
IdleCleanup ==
    [pc |-> "idle", cur |-> None, obj |-> 0, visited |-> {}, size |-> 0,
     closed |-> {}, stopped |-> {}, failed |-> {}]

Init ==
    /\ browser_sessions = EmptyMap
    /\ controllers = EmptyMap
    /\ file_systems = EmptyMap
    /\ agents = EmptyMap
    /\ handles = << >>
    /\ agent_objs = << >>
    /\ clock = 0
    /\ reqs = << >>
    /\ phase = "imported"
    /\ stop = IdleCleanup

\* ------------------------------------------------------ handler fragments
\* `request.session_id or f"session_{int(time.time() * 1000)}"`
SessionIdOr(sid, ms) == IF sid = None THEN GenSessionId(ms) ELSE sid

\* int(time.time() * 1000) as the coroutine reads it: the clock never runs
\* backwards, so a reading is at least the last one
Now(rec) == IF rec.ms < clock THEN clock ELSE rec.ms

\* run_agent_task that awaits agent.run itself instead of handing run_agent
\* to background_tasks: the run has begun when the handler goes on
ProceedRunsInline(i, rec, h) ==
    IF rec.op = "browser_navigate"
    THEN /\ reqs' = SetReq(i, [rec EXCEPT !.session = h, !.pc = "act"])
         /\ UNCHANGED <<agents, agent_objs, clock>>
    ELSE IF ~rec.api_key
         THEN /\ reqs' = SetReq(i, CatchAll([rec EXCEPT !.session = h], 400,
                                            "400: OPENAI_API_KEY not set"))
              /\ UNCHANGED <<agents, agent_objs, clock>>
         ELSE LET a == Len(agent_objs) + 1
                  task_id == GenTaskId(Now(rec))
              IN /\ clock' = Now(rec)
                 /\ agent_objs' = Append(agent_objs,
                        [browser_session |-> h, state |-> "running",
                         closed |-> 0, error |-> FALSE])
                 /\ agents' = Put(agents, task_id, a)
                 /\ reqs' = SetReq(i, [rec EXCEPT !.session = h, !.agent = a,
                                         !.task_id = task_id, !.status = 200,
                                         !.detail = "started", !.pc = "run"])

\* browser_extract_content after `session = await get_session(...)` returned
\* handle h: the key check, `controllers.get(...)` and `file_systems.get(...)`
\* on the maps as the coroutine finds them when it goes on (after the
\* registration, when get_session provisioned the session), up to
\* `await controller.act(...)`
ExtractLookup(i, rec, h) ==
    IF ~rec.api_key
    THEN reqs' = SetReq(i, CatchAll([rec EXCEPT !.session = h], 400,
                           "400: OPENAI_API_KEY not set for content extraction"))
    ELSE IF \/ rec.sid \notin DOMAIN controllers'
            \/ rec.sid \notin DOMAIN file_systems'
         THEN reqs' = SetReq(i, CatchAll([rec EXCEPT !.session = h], 500,
                                "500: Controller or FileSystem not initialized"))
         ELSE reqs' = SetReq(i, [rec EXCEPT !.session = h, !.pc = "extract"])

\* The handler's code after `session = await get_session(...)` returned
\* handle h, up to its next suspension point.
Proceed(i, rec, h) ==
    IF rec.op = "browser_extract_content"
    THEN /\ ExtractLookup(i, rec, h)
         /\ UNCHANGED <<agents, agent_objs, clock>>
    ELSE
    IF rec.op = "browser_navigate"
    THEN \* await session.navigate_to(request.url)
         /\ reqs' = SetReq(i, [rec EXCEPT !.session = h, !.pc = "act"])
         /\ UNCHANGED <<agents, agent_objs, clock>>
    ELSE \* run_agent_task
         IF ~rec.api_key
         THEN /\ reqs' = SetReq(i, CatchAll([rec EXCEPT !.session = h], 400,
                                            "400: OPENAI_API_KEY not set"))
              /\ UNCHANGED <<agents, agent_objs, clock>>
         ELSE LET a == Len(agent_objs) + 1
                  task_id == GenTaskId(Now(rec))
              IN /\ clock' = Now(rec)
                 /\ agent_objs' = Append(agent_objs,
                        [browser_session |-> h, state |-> "created",
                         closed |-> 0, error |-> FALSE])
                 /\ agents' = Put(agents, task_id, a)
                 /\ reqs' = SetReq(i, [rec EXCEPT !.session = h, !.agent = a,
                                         !.task_id = task_id, !.status = 200,
                                         !.detail = "started", !.pc = "bg"])

\* create_session from its first line to `await session.start()`
CreateSync(i, rec, sid) ==
    LET session_id == SessionIdOr(sid, Now(rec))
    IN /\ clock' = IF sid = None THEN Now(rec) ELSE clock
       /\ IF session_id \in DOMAIN browser_sessions
          THEN /\ reqs' = SetReq(i, CatchAll([rec EXCEPT !.session_id = session_id],
                                             400, "400: Session already exists"))
               /\ UNCHANGED handles
          ELSE /\ handles' = Append(handles, [state |-> "starting",
                                               sid |-> session_id])
               /\ reqs' = SetReq(i, [rec EXCEPT !.session_id = session_id,
                                       !.new = Len(handles) + 1,
                                       !.pc = "start"])

\* get_session without the "default" rule: every unregistered id is refused
GetSessionNoDefault(i, rec) ==
    IF rec.sid \notin DOMAIN browser_sessions
    THEN /\ reqs' = SetReq(i, CatchAll(rec, 404, "404: Session not found"))
         /\ UNCHANGED <<handles, agents, agent_objs, clock>>
    ELSE /\ Proceed(i, rec, browser_sessions[rec.sid])
         /\ UNCHANGED handles

\* get_session, called at the top of a handler's try block
GetSession(i, rec) ==
    IF rec.sid \notin DOMAIN browser_sessions
    THEN IF rec.sid = Default
         THEN /\ CreateSync(i, rec, Default)
              /\ UNCHANGED <<agents, agent_objs>>
         ELSE /\ reqs' = SetReq(i, CatchAll(rec, 404, "404: Session not found"))
              /\ UNCHANGED <<handles, agents, agent_objs, clock>>
    ELSE /\ Proceed(i, rec, browser_sessions[rec.sid])
         /\ UNCHANGED handles

\* ---------------------------------------------------------------- actions
\* a lifespan that provisions the "default" session before it serves
LifespanStartsDefault ==
    /\ phase = "imported"
    /\ phase' = "serving"
    /\ handles' = Append(handles, [state |-> "started", sid |-> Default])
    /\ browser_sessions' = Put(browser_sessions, Default, Len(handles) + 1)
    /\ controllers' = Put(controllers, Default, Len(handles) + 1)
    /\ file_systems' = Put(file_systems, Default, Len(handles) + 1)
    /\ UNCHANGED <<agents, agent_objs, clock, reqs, stop>>

\* lifespan up to its `yield`: a log line, and the application serves
lifespan_startup ==
    /\ phase = "imported"
    /\ phase' = "serving"
    /\ UNCHANGED <<browser_sessions, controllers, file_systems, agents, handles,
                   agent_objs, clock, reqs, stop>>

\* POST /sessions arrives
create_session(sid, ms) ==
    /\ phase = "serving"
    /\ Len(reqs) < MaxRequests
    /\ sid # None => ms = 0   \* the clock is read only to generate an id
    /\ CreateSync(Len(reqs) + 1, NewReq("create_session", sid, ms, FALSE), sid)
    /\ UNCHANGED <<browser_sessions, controllers, file_systems, agents,
                   agent_objs, phase, stop>>

\* POST /browser/navigate arrives
browser_navigate(sid) ==
    /\ phase = "serving"
    /\ Len(reqs) < MaxRequests
    /\ GetSession(Len(reqs) + 1, NewReq("browser_navigate", sid, 0, FALSE))
    /\ UNCHANGED <<browser_sessions, controllers, file_systems, phase, stop>>

\* POST /browser/extract_content arrives; key: OPENAI_API_KEY is set
browser_extract_content(sid, key) ==
    /\ phase = "serving"
    /\ Len(reqs) < MaxRequests
    /\ UNCHANGED <<browser_sessions, controllers, file_systems, phase, stop>>
    /\ GetSession(Len(reqs) + 1,
                  NewReq("browser_extract_content", sid, 0, key))

\* POST /agent/task arrives
run_agent_task(sid, ms, key) ==
    /\ phase = "serving"
    /\ Len(reqs) < MaxRequests
    /\ ~key => ms = 0         \* the clock is read only to generate a task id
    /\ GetSession(Len(reqs) + 1, NewReq("run_agent_task", sid, ms, key))
    /\ UNCHANGED <<browser_sessions, controllers, file_systems, phase, stop>>

StartOutcomes == {"ok", "start_raises", "controller_raises", "file_system_raises"}

\* `await session.start()` returns or raises in create_session, and the
\* coroutine runs on: registration, then back in the caller.
ResumeStart(i, outcome) ==
    LET rec == reqs[i]
        h == rec.new
        id == rec.session_id
    IN /\ rec.pc = "start"
       /\ UNCHANGED <<phase, stop>>
       /\ IF outcome = "start_raises"
          THEN /\ handles' = [handles EXCEPT ![h].state = "failed"]
               /\ reqs' = SetReq(i, CatchAll(rec, 500, outcome))
               /\ UNCHANGED <<browser_sessions, controllers, file_systems,
                              agents, agent_objs, clock>>
          ELSE /\ handles' = [handles EXCEPT ![h].state = "started"]
               /\ browser_sessions' = Put(browser_sessions, id, h)
               /\ controllers' = IF outcome = "controller_raises"
                                 THEN controllers
                                 ELSE Put(controllers, id, h)
               /\ file_systems' = IF outcome = "ok"
                                  THEN Put(file_systems, id, h)
                                  ELSE file_systems
               /\ IF outcome # "ok"
                  THEN /\ reqs' = SetReq(i, CatchAll(rec, 500, outcome))
                       /\ UNCHANGED <<agents, agent_objs, clock>>
                  ELSE IF rec.op = "create_session"
                       THEN /\ reqs' = SetReq(i, Respond(rec, 200, "created"))
                            /\ UNCHANGED <<agents, agent_objs, clock>>
                       ELSE \* get_session: return server_state.browser_sessions[session_id]
                            Proceed(i, rec, browser_sessions'[rec.sid])

\* browser_navigate that looks its session up again when the await is over
\* and refuses to answer for one that is no longer registered
ResumeActRechecks(i, ok) ==
    /\ reqs[i].pc = "act"
    /\ reqs' = SetReq(i,
          IF reqs[i].sid \notin DOMAIN browser_sessions
          THEN CatchAll(reqs[i], 404, "404: Session not found")
          ELSE IF ok THEN Respond(reqs[i], 200, "navigated")
                     ELSE CatchAll(reqs[i], 500, "navigate failed"))
    /\ UNCHANGED <<browser_sessions, controllers, file_systems, agents, handles,
                   agent_objs, clock, phase, stop>>

\* browser_navigate that drops the session whose handle raised
ResumeActFailureCloses(i, ok) ==
    /\ reqs[i].pc = "act"
    /\ reqs' = SetReq(i, IF ok THEN Respond(reqs[i], 200, "navigated")
                              ELSE CatchAll(reqs[i], 500, "navigate failed"))
    /\ browser_sessions' = IF ok THEN browser_sessions
                           ELSE Del(browser_sessions, reqs[i].sid)
    /\ controllers' = IF ok THEN controllers ELSE Del(controllers, reqs[i].sid)
    /\ file_systems' = IF ok THEN file_systems
                       ELSE Del(file_systems, reqs[i].sid)
    /\ UNCHANGED <<agents, handles, agent_objs, clock, phase, stop>>

\* `await session.navigate_to(...)` returns or raises in browser_navigate
ResumeAct(i, ok) ==
    /\ reqs[i].pc = "act"
    /\ reqs' = SetReq(i, IF ok THEN Respond(reqs[i], 200, "navigated")
                              ELSE CatchAll(reqs[i], 500, "navigate failed"))
    /\ UNCHANGED <<browser_sessions, controllers, file_systems, agents, handles,
                   agent_objs, clock, phase, stop>>

\* `await controller.act(...)` returns or raises in browser_extract_content
ResumeExtract(i, ok) ==
    /\ reqs[i].pc = "extract"
    /\ reqs' = SetReq(i, IF ok THEN Respond(reqs[i], 200, "extracted")
                              ELSE CatchAll(reqs[i], 500, "extract failed"))
    /\ UNCHANGED <<browser_sessions, controllers, file_systems, agents, handles,
                   agent_objs, clock, phase, stop>>

\* close_session from `session = server_state.browser_sessions[session_id]`
\* to `await session.stop()`; the subscript raises KeyError on a missing key
CloseLookup(i, rec) ==
    IF rec.sid \in DOMAIN browser_sessions
    THEN reqs' = SetReq(i, [rec EXCEPT !.session = browser_sessions[rec.sid],
                                       !.pc = "stop"])
    ELSE reqs' = SetReq(i, CatchAll(rec, 500, "KeyError"))

\* DELETE /sessions/{session_id} arrives
close_session(sid) ==
    /\ phase = "serving"
    /\ Len(reqs) < MaxRequests
    /\ LET i == Len(reqs) + 1
           rec == NewReq("close_session", sid, 0, FALSE)
       IN IF sid \notin DOMAIN browser_sessions
          THEN reqs' = SetReq(i, CatchAll(rec, 404, "404: Session not found"))
          ELSE IF sid \in DOMAIN agents
               THEN \* await server_state.agents[session_id].close()
                    reqs' = SetReq(i, [rec EXCEPT !.agent = agents[sid],
                                                  !.pc = "agent_close"])
               ELSE CloseLookup(i, rec)
    /\ UNCHANGED <<browser_sessions, controllers, file_systems, agents, handles,
                   agent_objs, clock, phase, stop>>

\* `await ...agents[session_id].close()` returns or raises in close_session
ResumeAgentClose(i, ok) ==
    LET rec == reqs[i]
    IN /\ rec.pc = "agent_close"
       /\ IF ~ok
          THEN /\ reqs' = SetReq(i, CatchAll(rec, 500, "agent close failed"))
               /\ UNCHANGED <<agents, agent_objs>>
          ELSE /\ agent_objs' = [agent_objs EXCEPT ![rec.agent].closed = @ + 1]
               /\ IF rec.sid \notin DOMAIN agents
                  THEN \* del server_state.agents[session_id]
                       /\ reqs' = SetReq(i, CatchAll(rec, 500, "KeyError"))
                       /\ UNCHANGED agents
                  ELSE /\ agents' = Del(agents, rec.sid)
                       /\ CloseLookup(i, rec)
       /\ UNCHANGED <<browser_sessions, controllers, file_systems, handles,
                      clock, phase, stop>>

\* close_session that removes the dispatcher and the sandbox of the session
\* and leaves its handle registered
ResumeStopKeepsSession(i, ok) ==
    LET rec == reqs[i]
    IN /\ rec.pc = "stop"
       /\ IF ~ok
          THEN /\ reqs' = SetReq(i, CatchAll(rec, 500, "stop failed"))
               /\ UNCHANGED <<browser_sessions, controllers, file_systems, handles>>
          ELSE /\ handles' = [handles EXCEPT ![rec.session].state = "stopped"]
               /\ UNCHANGED browser_sessions
               /\ controllers' = Del(controllers, rec.sid)
               /\ file_systems' = Del(file_systems, rec.sid)
               /\ reqs' = SetReq(i, Respond(rec, 200, "closed"))
       /\ UNCHANGED <<agents, agent_objs, clock, phase, stop>>

\* close_session that forgets the dispatcher: controllers keeps the entry
ResumeStopLeavesDispatcher(i, ok) ==
    LET rec == reqs[i]
    IN /\ rec.pc = "stop"
       /\ IF ~ok
          THEN /\ reqs' = SetReq(i, CatchAll(rec, 500, "stop failed"))
               /\ UNCHANGED <<browser_sessions, controllers, file_systems, handles>>
          ELSE /\ handles' = [handles EXCEPT ![rec.session].state = "stopped"]
               /\ IF rec.sid \notin DOMAIN browser_sessions
                  THEN /\ reqs' = SetReq(i, CatchAll(rec, 500, "KeyError"))
                       /\ UNCHANGED <<browser_sessions, controllers, file_systems>>
                  ELSE /\ browser_sessions' = Del(browser_sessions, rec.sid)
                       /\ controllers' = controllers
                       /\ file_systems' = Del(file_systems, rec.sid)
                       /\ reqs' = SetReq(i, Respond(rec, 200, "closed"))
       /\ UNCHANGED <<agents, agent_objs, clock, phase, stop>>

\* close_session that forgets the sandbox: file_systems keeps the entry
ResumeStopLeavesSandbox(i, ok) ==
    LET rec == reqs[i]
    IN /\ rec.pc = "stop"
       /\ IF ~ok
          THEN /\ reqs' = SetReq(i, CatchAll(rec, 500, "stop failed"))
               /\ UNCHANGED <<browser_sessions, controllers, file_systems, handles>>
          ELSE /\ handles' = [handles EXCEPT ![rec.session].state = "stopped"]
               /\ IF rec.sid \notin DOMAIN browser_sessions
                  THEN /\ reqs' = SetReq(i, CatchAll(rec, 500, "KeyError"))
                       /\ UNCHANGED <<browser_sessions, controllers, file_systems, phase, stop>>
                  ELSE /\ browser_sessions' = Del(browser_sessions, rec.sid)
                       /\ controllers' = Del(controllers, rec.sid)
                       /\ file_systems' = file_systems
                       /\ reqs' = SetReq(i, Respond(rec, 200, "closed"))
       /\ UNCHANGED <<agents, agent_objs, clock, phase, stop>>

\* `await session.stop()` returns or raises in close_session
ResumeStop(i, ok) ==
    LET rec == reqs[i]
    IN /\ rec.pc = "stop"
       /\ IF ~ok
          THEN /\ reqs' = SetReq(i, CatchAll(rec, 500, "stop failed"))
               /\ UNCHANGED <<browser_sessions, controllers, file_systems, handles>>
          ELSE /\ handles' = [handles EXCEPT ![rec.session].state = "stopped"]
               /\ IF rec.sid \notin DOMAIN browser_sessions
                  THEN \* del server_state.browser_sessions[session_id]
                       /\ reqs' = SetReq(i, CatchAll(rec, 500, "KeyError"))
                       /\ UNCHANGED <<browser_sessions, controllers, file_systems, phase, stop>>
                  ELSE /\ browser_sessions' = Del(browser_sessions, rec.sid)
                       /\ controllers' = Del(controllers, rec.sid)
                       /\ file_systems' = Del(file_systems, rec.sid)
                       /\ reqs' = SetReq(i, Respond(rec, 200, "closed"))
       /\ UNCHANGED <<agents, agent_objs, clock, phase, stop>>

\* the background task run_agent starts: `await agent.run(max_steps=...)`
BgStart(i) ==
    /\ reqs[i].pc = "bg"
    /\ reqs' = SetReq(i, [reqs[i] EXCEPT !.pc = "run"])
    /\ agent_objs' = [agent_objs EXCEPT ![reqs[i].agent].state = "running"]
    /\ UNCHANGED <<browser_sessions, controllers, file_systems, agents, handles,
                   clock, phase, stop>>

\* run_retry_agent without its finally block: the agent is never closed
BgFinishNoFinally(i, ok) ==
    /\ reqs[i].pc = "run"
    /\ reqs' = SetReq(i, [reqs[i] EXCEPT !.pc = "done"])
    /\ agent_objs' = [agent_objs EXCEPT ![reqs[i].agent].state = "finished",
                                        ![reqs[i].agent].error = ~ok]
    /\ UNCHANGED <<browser_sessions, controllers, file_systems, agents, handles,
                   clock, phase, stop>>

\* run_agent with the finally block of run_retry_agent: every background
\* run closes its agent when it ends
BgFinishAlwaysCloses(i, ok) ==
    /\ reqs[i].pc = "run"
    /\ reqs' = SetReq(i, [reqs[i] EXCEPT !.pc = "bg_close"])
    /\ agent_objs' = [agent_objs EXCEPT ![reqs[i].agent].state = "finished",
                                        ![reqs[i].agent].error = ~ok]
    /\ UNCHANGED <<browser_sessions, controllers, file_systems, agents, handles,
                   clock, phase, stop>>

\* an agent whose liveness flag stays set when its run raises
BgFinishRaiseKeepsRunning(i, ok) ==
    /\ reqs[i].pc = "run"
    /\ reqs' = SetReq(i, [reqs[i] EXCEPT !.pc =
                    IF reqs[i].op = "retry_with_browser_use_agent"
                    THEN "bg_close"
                    ELSE "done"])
    /\ agent_objs' = [agent_objs EXCEPT
                        ![reqs[i].agent].state = IF ok THEN "finished" ELSE @,
                        ![reqs[i].agent].error = ~ok]
    /\ UNCHANGED <<browser_sessions, controllers, file_systems, agents, handles,
                   clock, phase, stop>>

\* run_agent whose except clause drops the task whose run raised
BgFinishDropsTask(i, ok) ==
    /\ reqs[i].pc = "run"
    /\ reqs' = SetReq(i, [reqs[i] EXCEPT !.pc =
                    IF reqs[i].op = "retry_with_browser_use_agent"
                    THEN "bg_close"
                    ELSE "done"])
    /\ agent_objs' = [agent_objs EXCEPT ![reqs[i].agent].state = "finished",
                                        ![reqs[i].agent].error = ~ok]
    /\ agents' = IF ok THEN agents ELSE Del(agents, reqs[i].task_id)
    /\ UNCHANGED <<browser_sessions, controllers, file_systems, handles,
                   clock, phase, stop>>

\* agent.run returns or raises; run_agent logs either and ends
BgFinish(i, ok) ==
    /\ reqs[i].pc = "run"
    /\ reqs' = SetReq(i, [reqs[i] EXCEPT !.pc =
                    IF reqs[i].op = "retry_with_browser_use_agent"
                    THEN "bg_close"   \* finally: await agent.close()
                    ELSE "done"])
    /\ agent_objs' = [agent_objs EXCEPT ![reqs[i].agent].state = "finished",
                                        ![reqs[i].agent].error = ~ok]
    /\ UNCHANGED <<browser_sessions, controllers, file_systems, agents, handles,
                   clock, phase, stop>>

\* GET /sessions arrives
list_sessions ==
    /\ phase = "serving"
    /\ Len(reqs) < MaxRequests
    /\ LET n == Cardinality(DOMAIN browser_sessions)
       IN ListAdvance(Len(reqs) + 1,
                      [NewReq("list_sessions", None, 0, FALSE)
                          EXCEPT !.it = [NoIter EXCEPT !.size = n, !.left = n]])
    /\ UNCHANGED <<browser_sessions, controllers, file_systems, agents, handles,
                   agent_objs, clock, phase, stop>>

\* `await session.get_current_page()` and `await current_page.title()`
\* return, or one of them raises, in list_sessions' loop body (one
\* suspension: the handler reads no state between the two); the summary is
\* appended with `session_id in server_state.agents` as its has_agent
ResumeList(i, ok) ==
    /\ reqs[i].pc = "page"
    /\ LET rec == reqs[i]
           summary == [session_id |-> rec.it.cur, error |-> ~ok,
                       has_agent |-> rec.it.cur \in DOMAIN agents]
       IN ListAdvance(i, [rec EXCEPT !.sessions = Append(@, summary)])
    /\ UNCHANGED <<browser_sessions, controllers, file_systems, agents, handles,
                   agent_objs, clock, phase, stop>>

\* `await agent.close()` returns or raises in run_retry_agent's finally
\* block; a raise is logged
ResumeBgClose(i, ok) ==
    /\ reqs[i].pc = "bg_close"
    /\ reqs' = SetReq(i, [reqs[i] EXCEPT !.pc = "done"])
    /\ agent_objs' = IF ok
                     THEN [agent_objs EXCEPT ![reqs[i].agent].closed = @ + 1]
                     ELSE agent_objs
    /\ UNCHANGED <<browser_sessions, controllers, file_systems, agents, handles,
                   clock, phase, stop>>

\* POST /browser/retry_with_agent arrives: the agent gets a browser of its
\* own (browser_profile), no session of the registry is looked up
retry_with_browser_use_agent(ms, key) ==
    /\ phase = "serving"
    /\ Len(reqs) < MaxRequests
    /\ ~key => ms = 0         \* the clock is read only to generate a task id
    /\ LET i == Len(reqs) + 1
           \* request.session_id ("default" when omitted) is only echoed
           rec == NewReq("retry_with_browser_use_agent", Default, ms, key)
           a == Len(agent_objs) + 1
           task_id == GenRetryTaskId(Now(rec))
       IN IF ~key
          THEN /\ reqs' = SetReq(i, CatchAll(rec, 400,
                                             "400: OPENAI_API_KEY not set"))
               /\ UNCHANGED <<agents, agent_objs, clock>>
          ELSE /\ clock' = Now(rec)
               /\ agent_objs' = Append(agent_objs,
                      [browser_session |-> 0, state |-> "created",
                       closed |-> 0, error |-> FALSE])
               /\ agents' = Put(agents, task_id, a)
               /\ reqs' = SetReq(i, [rec EXCEPT !.agent = a,
                                       !.task_id = task_id, !.status = 200,
                                       !.detail = "started", !.pc = "bg"])
    /\ UNCHANGED <<browser_sessions, controllers, file_systems, handles, phase,
                   stop>>

\* the agent's liveness flag `running`: set while agent.run is in progress
Running(a) == agent_objs[a].state = "running"

\* agent.state.history.errors(): what the run recorded as failed
HistoryErrors(a) == agent_objs[a].error

\* `"running" if is_running else "completed"`
TaskStatus(a) == IF Running(a) THEN "running" ELSE "completed"

\* get_agent_task_status inside the catch-all that the other handlers have:
\* its HTTPException(404) leaves as a 500
StatusInsideCatchAll(tid) ==
    /\ phase = "serving"
    /\ Len(reqs) < MaxRequests
    /\ LET i == Len(reqs) + 1
           rec == [NewReq("get_agent_task_status", None, 0, FALSE)
                       EXCEPT !.task_id = tid]
       IN IF tid \notin DOMAIN agents
          THEN reqs' = SetReq(i, CatchAll(rec, 404, "404: Task not found"))
          ELSE LET a == agents[tid]
               IN reqs' = SetReq(i, [Respond(rec, 200, TaskStatus(a))
                                        EXCEPT !.agent = a,
                                               !.errors = HistoryErrors(a)])
    /\ UNCHANGED <<browser_sessions, controllers, file_systems, agents, handles,
                   agent_objs, clock, phase, stop>>

\* GET /agent/task/{task_id} arrives; the handler has no await and no try
\* block, so its HTTPException(404) reaches the client as it is
get_agent_task_status(tid) ==
    /\ phase = "serving"
    /\ Len(reqs) < MaxRequests
    /\ LET i == Len(reqs) + 1
           rec == [NewReq("get_agent_task_status", None, 0, FALSE)
                       EXCEPT !.task_id = tid]
       IN IF tid \notin DOMAIN agents
          THEN reqs' = SetReq(i, Respond(rec, 404, "404: Task not found"))
          ELSE LET a == agents[tid]
               IN reqs' = SetReq(i, [Respond(rec, 200, TaskStatus(a))
                                        EXCEPT !.agent = a,
                                               !.errors = HistoryErrors(a)])
    /\ UNCHANGED <<browser_sessions, controllers, file_systems, agents, handles,
                   agent_objs, clock, phase, stop>>

\* cleanup as one loop over both registries, in no particular order
CleanupAnyOrder(loop, st) ==
    LET restA == DOMAIN agents \ st.visited
        restS == DOMAIN browser_sessions \ st.visited
    IN IF restA \cup restS = {}
       THEN stop' = [st EXCEPT !.pc = "done", !.cur = None, !.obj = 0]
       ELSE \E k \in restA \cup restS :
               stop' = [st EXCEPT
                          !.pc = IF k \in restA THEN "agents" ELSE "sessions",
                          !.cur = k,
                          !.obj = IF k \in restA THEN agents[k]
                                  ELSE browser_sessions[k],
                          !.visited = @ \cup {k}]

\* cleanup without its second loop: the sessions are left alone
CleanupAgentsOnly(loop, st) ==
    LET rest == DOMAIN agents \ st.visited
    IN IF rest # {}
       THEN \E k \in rest :
               stop' = [st EXCEPT !.pc = "agents", !.cur = k, !.obj = agents[k],
                                  !.visited = @ \cup {k}]
       ELSE stop' = [st EXCEPT !.pc = "done", !.cur = None, !.obj = 0]

\* ServerState.cleanup moves on to the next item and suspends in its
\* teardown, or falls out of the last loop and returns.  `loop` is the loop
\* it is in, `st` its state after the item just handled.  Iterating a dict
\* whose size has changed since the loop began raises RuntimeError from the
\* `for` statement, outside the per-item try.  The items come in the dict's
\* insertion order, which the maps do not keep: any order is allowed.
CleanupAdvance(loop, st) ==
    LET m == IF loop = "agents" THEN agents ELSE browser_sessions
        rest == DOMAIN m \ st.visited
    IN IF Cardinality(DOMAIN m) # st.size
       THEN stop' = [st EXCEPT !.pc = "raised", !.cur = None, !.obj = 0]
       ELSE IF rest # {}
            THEN \E k \in rest :
                    stop' = [st EXCEPT !.pc = loop, !.cur = k, !.obj = m[k],
                                       !.visited = @ \cup {k}]
            ELSE IF loop = "agents"
                 THEN \* for session_id, session in self.browser_sessions.items()
                      LET n == Cardinality(DOMAIN browser_sessions)
                          st2 == [st EXCEPT !.visited = {}, !.size = n]
                      IN IF n = 0
                         THEN stop' = [st2 EXCEPT !.pc = "done", !.cur = None,
                                                  !.obj = 0]
                         ELSE \E k \in DOMAIN browser_sessions :
                                 stop' = [st2 EXCEPT !.pc = "sessions",
                                              !.cur = k,
                                              !.obj = browser_sessions[k],
                                              !.visited = {k}]
                 ELSE stop' = [st EXCEPT !.pc = "done", !.cur = None, !.obj = 0]

\* lifespan after its `yield`: `await server_state.cleanup()`, up to the
\* first teardown it awaits.  The server has stopped accepting requests and
\* every handler has answered; background tasks may still be running.
lifespan_shutdown ==
    /\ phase = "serving"
    /\ \A i \in Reqs : reqs[i].pc \in {"done", "bg", "run", "bg_close"}
    /\ CleanupAdvance("agents", [IdleCleanup EXCEPT
                                    !.size = Cardinality(DOMAIN agents)])
    /\ phase' = IF stop'.pc = "done" THEN "stopped" ELSE "stopping"
    /\ UNCHANGED <<browser_sessions, controllers, file_systems, agents, handles,
                   agent_objs, clock, reqs>>

\* cleanup that unregisters what it has torn down, as close_session does
ResumeCleanupUnregisters(ok) ==
    /\ stop.pc \in {"agents", "sessions"}
    /\ LET st == IF stop.pc = "agents"
                 THEN [stop EXCEPT !.closed = @ \cup {stop.obj}]
                 ELSE [stop EXCEPT !.stopped = @ \cup {stop.obj}]
       IN CleanupAdvance(stop.pc,
              IF ok THEN st ELSE [st EXCEPT !.failed = @ \cup {stop.cur}])
    /\ agent_objs' = IF ok /\ stop.pc = "agents"
                     THEN [agent_objs EXCEPT ![stop.obj].closed = @ + 1]
                     ELSE agent_objs
    /\ handles' = IF ok /\ stop.pc = "sessions"
                  THEN [handles EXCEPT ![stop.obj].state = "stopped"]
                  ELSE handles
    /\ agents' = IF ok /\ stop.pc = "agents"
                 THEN Del(agents, stop.cur) ELSE agents
    /\ browser_sessions' = IF ok /\ stop.pc = "sessions"
                           THEN Del(browser_sessions, stop.cur)
                           ELSE browser_sessions
    /\ controllers' = IF ok /\ stop.pc = "sessions"
                      THEN Del(controllers, stop.cur) ELSE controllers
    /\ file_systems' = IF ok /\ stop.pc = "sessions"
                       THEN Del(file_systems, stop.cur) ELSE file_systems
    /\ phase' = IF stop'.pc = "done" THEN "stopped"
                ELSE IF stop'.pc = "raised" THEN "crashed" ELSE phase
    /\ UNCHANGED <<clock, reqs>>

\* cleanup without the per-item try: the first teardown that raises ends it
ResumeCleanupNoTry(ok) ==
    /\ stop.pc \in {"agents", "sessions"}
    /\ LET st == IF stop.pc = "agents"
                 THEN [stop EXCEPT !.closed = @ \cup {stop.obj}]
                 ELSE [stop EXCEPT !.stopped = @ \cup {stop.obj}]
       IN IF ok
          THEN CleanupAdvance(stop.pc, st)
          ELSE stop' = [st EXCEPT !.pc = "raised", !.cur = None, !.obj = 0,
                                  !.failed = @ \cup {stop.cur}]
    /\ agent_objs' = IF ok /\ stop.pc = "agents"
                     THEN [agent_objs EXCEPT ![stop.obj].closed = @ + 1]
                     ELSE agent_objs
    /\ handles' = IF ok /\ stop.pc = "sessions"
                  THEN [handles EXCEPT ![stop.obj].state = "stopped"]
                  ELSE handles
    /\ phase' = IF stop'.pc = "done" THEN "stopped"
                ELSE IF stop'.pc = "raised" THEN "crashed" ELSE phase
    /\ UNCHANGED <<browser_sessions, controllers, file_systems, agents, clock,
                   reqs>>

\* the teardown cleanup awaits returns or raises; `except Exception` logs
\* the raise and the loop goes on
ResumeCleanup(ok) ==
    /\ stop.pc \in {"agents", "sessions"}
    /\ LET st == IF stop.pc = "agents"
                 THEN [stop EXCEPT !.closed = @ \cup {stop.obj}]
                 ELSE [stop EXCEPT !.stopped = @ \cup {stop.obj}]
       IN CleanupAdvance(stop.pc,
              IF ok THEN st ELSE [st EXCEPT !.failed = @ \cup {stop.cur}])
    /\ agent_objs' = IF ok /\ stop.pc = "agents"
                     THEN [agent_objs EXCEPT ![stop.obj].closed = @ + 1]
                     ELSE agent_objs
    /\ handles' = IF ok /\ stop.pc = "sessions"
                  THEN [handles EXCEPT ![stop.obj].state = "stopped"]
                  ELSE handles
    /\ phase' = IF stop'.pc = "done" THEN "stopped"
                ELSE IF stop'.pc = "raised" THEN "crashed" ELSE phase
    /\ UNCHANGED <<browser_sessions, controllers, file_systems, agents, clock,
                   reqs>>

\* --------------------------------------------- standalone_server.py
\* The operations that standalone_server.py defines as well, translated
\* from its code over the same state; it has no content extraction and no
\* detached launch.

\* `request.session_id or f"session_{int(time.time() * 1000)}"`
standalone_SessionIdOr(sid, ms) == IF sid = None THEN GenSessionId(ms) ELSE sid

\* The handler's code after `session = await get_session(...)` returned
\* handle h, up to its next suspension point.
standalone_Proceed(i, rec, h) ==
    IF rec.op = "browser_navigate"
    THEN \* await session.navigate_to(request.url)
         /\ reqs' = SetReq(i, [rec EXCEPT !.session = h, !.pc = "act"])
         /\ UNCHANGED <<agents, agent_objs, clock>>
    ELSE \* run_agent_task
         IF ~rec.api_key
         THEN /\ reqs' = SetReq(i, CatchAll([rec EXCEPT !.session = h], 400,
                                            "400: OPENAI_API_KEY not set"))
              /\ UNCHANGED <<agents, agent_objs, clock>>
         ELSE LET a == Len(agent_objs) + 1
                  task_id == GenTaskId(Now(rec))
              IN /\ clock' = Now(rec)
                 /\ agent_objs' = Append(agent_objs,
                        [browser_session |-> h, state |-> "created",
                         closed |-> 0, error |-> FALSE])
                 /\ agents' = Put(agents, task_id, a)
                 /\ reqs' = SetReq(i, [rec EXCEPT !.session = h, !.agent = a,
                                         !.task_id = task_id, !.status = 200,
                                         !.detail = "started", !.pc = "bg"])

\* create_session from its first line to `await session.start()`
standalone_CreateSync(i, rec, sid) ==
    LET session_id == standalone_SessionIdOr(sid, Now(rec))
    IN /\ clock' = IF sid = None THEN Now(rec) ELSE clock
       /\ IF session_id \in DOMAIN browser_sessions
          THEN /\ reqs' = SetReq(i, CatchAll([rec EXCEPT !.session_id = session_id],
                                             400, "400: Session already exists"))
               /\ UNCHANGED handles
          ELSE /\ handles' = Append(handles, [state |-> "starting",
                                               sid |-> session_id])
               /\ reqs' = SetReq(i, [rec EXCEPT !.session_id = session_id,
                                       !.new = Len(handles) + 1,
                                       !.pc = "start"])

\* get_session, called at the top of a handler's try block
standalone_GetSession(i, rec) ==
    IF rec.sid \notin DOMAIN browser_sessions
    THEN IF rec.sid = Default
         THEN /\ standalone_CreateSync(i, rec, Default)
              /\ UNCHANGED <<agents, agent_objs>>
         ELSE /\ reqs' = SetReq(i, CatchAll(rec, 404, "404: Session not found"))
              /\ UNCHANGED <<handles, agents, agent_objs, clock>>
    ELSE /\ standalone_Proceed(i, rec, browser_sessions[rec.sid])
         /\ UNCHANGED handles

\* lifespan up to its `yield`: a log line, and the application serves
standalone_lifespan_startup ==
    /\ phase = "imported"
    /\ phase' = "serving"
    /\ UNCHANGED <<browser_sessions, controllers, file_systems, agents, handles,
                   agent_objs, clock, reqs, stop>>

\* POST /sessions arrives
standalone_create_session(sid, ms) ==
    /\ phase = "serving"
    /\ Len(reqs) < MaxRequests
    /\ sid # None => ms = 0   \* the clock is read only to generate an id
    /\ standalone_CreateSync(Len(reqs) + 1, NewReq("create_session", sid, ms, FALSE), sid)
    /\ UNCHANGED <<browser_sessions, controllers, file_systems, agents,
                   agent_objs, phase, stop>>

\* POST /agent/task arrives
standalone_run_agent_task(sid, ms, key) ==
    /\ phase = "serving"
    /\ Len(reqs) < MaxRequests
    /\ ~key => ms = 0         \* the clock is read only to generate a task id
    /\ standalone_GetSession(Len(reqs) + 1, NewReq("run_agent_task", sid, ms, key))
    /\ UNCHANGED <<browser_sessions, controllers, file_systems, phase, stop>>

\* `await session.start()` returns or raises in create_session, and the
\* coroutine runs on: registration, then back in the caller.
standalone_ResumeStart(i, outcome) ==
    LET rec == reqs[i]
        h == rec.new
        id == rec.session_id
    IN /\ rec.pc = "start"
       /\ UNCHANGED <<phase, stop>>
       /\ IF outcome = "start_raises"
          THEN /\ handles' = [handles EXCEPT ![h].state = "failed"]
               /\ reqs' = SetReq(i, CatchAll(rec, 500, outcome))
               /\ UNCHANGED <<browser_sessions, controllers, file_systems,
                              agents, agent_objs, clock>>
          ELSE /\ handles' = [handles EXCEPT ![h].state = "started"]
               /\ browser_sessions' = Put(browser_sessions, id, h)
               /\ controllers' = IF outcome = "controller_raises"
                                 THEN controllers
                                 ELSE Put(controllers, id, h)
               /\ file_systems' = IF outcome = "ok"
                                  THEN Put(file_systems, id, h)
                                  ELSE file_systems
               /\ IF outcome # "ok"
                  THEN /\ reqs' = SetReq(i, CatchAll(rec, 500, outcome))
                       /\ UNCHANGED <<agents, agent_objs, clock>>
                  ELSE IF rec.op = "create_session"
                       THEN /\ reqs' = SetReq(i, Respond(rec, 200, "created"))
                            /\ UNCHANGED <<agents, agent_objs, clock>>
                       ELSE \* get_session: return server_state.browser_sessions[session_id]
                            standalone_Proceed(i, rec, browser_sessions'[rec.sid])

\* close_session from `session = server_state.browser_sessions[session_id]`
\* to `await session.stop()`; the subscript raises KeyError on a missing key
standalone_CloseLookup(i, rec) ==
    IF rec.sid \in DOMAIN browser_sessions
    THEN reqs' = SetReq(i, [rec EXCEPT !.session = browser_sessions[rec.sid],
                                       !.pc = "stop"])
    ELSE reqs' = SetReq(i, CatchAll(rec, 500, "KeyError"))

\* a close_session that goes to the handle's stop without closing an agent
\* registered under the session id
CloseSkipsAgent(sid) ==
    /\ phase = "serving"
    /\ Len(reqs) < MaxRequests
    /\ LET i == Len(reqs) + 1
           rec == NewReq("close_session", sid, 0, FALSE)
       IN IF sid \notin DOMAIN browser_sessions
          THEN reqs' = SetReq(i, CatchAll(rec, 404, "404: Session not found"))
          ELSE standalone_CloseLookup(i, rec)
    /\ UNCHANGED <<browser_sessions, controllers, file_systems, agents, handles,
                   agent_objs, clock, phase, stop>>

\* DELETE /sessions/{session_id} arrives
standalone_close_session(sid) ==
    /\ phase = "serving"
    /\ Len(reqs) < MaxRequests
    /\ LET i == Len(reqs) + 1
           rec == NewReq("close_session", sid, 0, FALSE)
       IN IF sid \notin DOMAIN browser_sessions
          THEN reqs' = SetReq(i, CatchAll(rec, 404, "404: Session not found"))
          ELSE IF sid \in DOMAIN agents
               THEN \* await server_state.agents[session_id].close()
                    reqs' = SetReq(i, [rec EXCEPT !.agent = agents[sid],
                                                  !.pc = "agent_close"])
               ELSE standalone_CloseLookup(i, rec)
    /\ UNCHANGED <<browser_sessions, controllers, file_systems, agents, handles,
                   agent_objs, clock, phase, stop>>

\* `await ...agents[session_id].close()` returns or raises in close_session
standalone_ResumeAgentClose(i, ok) ==
    LET rec == reqs[i]
    IN /\ rec.pc = "agent_close"
       /\ IF ~ok
          THEN /\ reqs' = SetReq(i, CatchAll(rec, 500, "agent close failed"))
               /\ UNCHANGED <<agents, agent_objs>>
          ELSE /\ agent_objs' = [agent_objs EXCEPT ![rec.agent].closed = @ + 1]
               /\ IF rec.sid \notin DOMAIN agents
                  THEN \* del server_state.agents[session_id]
                       /\ reqs' = SetReq(i, CatchAll(rec, 500, "KeyError"))
                       /\ UNCHANGED agents
                  ELSE /\ agents' = Del(agents, rec.sid)
                       /\ standalone_CloseLookup(i, rec)
       /\ UNCHANGED <<browser_sessions, controllers, file_systems, handles,
                      clock, phase, stop>>

\* `await session.stop()` returns or raises in close_session
standalone_ResumeStop(i, ok) ==
    LET rec == reqs[i]
    IN /\ rec.pc = "stop"
       /\ IF ~ok
          THEN /\ reqs' = SetReq(i, CatchAll(rec, 500, "stop failed"))
               /\ UNCHANGED <<browser_sessions, controllers, file_systems, handles>>
          ELSE /\ handles' = [handles EXCEPT ![rec.session].state = "stopped"]
               /\ IF rec.sid \notin DOMAIN browser_sessions
                  THEN \* del server_state.browser_sessions[session_id]
                       /\ reqs' = SetReq(i, CatchAll(rec, 500, "KeyError"))
                       /\ UNCHANGED <<browser_sessions, controllers, file_systems, phase, stop>>
                  ELSE /\ browser_sessions' = Del(browser_sessions, rec.sid)
                       /\ controllers' = Del(controllers, rec.sid)
                       /\ file_systems' = Del(file_systems, rec.sid)
                       /\ reqs' = SetReq(i, Respond(rec, 200, "closed"))
       /\ UNCHANGED <<agents, agent_objs, clock, phase, stop>>

\* the background task run_agent starts: `await agent.run(max_steps=...)`
standalone_BgStart(i) ==
    /\ reqs[i].pc = "bg"
    /\ reqs' = SetReq(i, [reqs[i] EXCEPT !.pc = "run"])
    /\ agent_objs' = [agent_objs EXCEPT ![reqs[i].agent].state = "running"]
    /\ UNCHANGED <<browser_sessions, controllers, file_systems, agents, handles,
                   clock, phase, stop>>

\* agent.run returns or raises; run_agent logs either and ends
standalone_BgFinish(i, ok) ==
    /\ reqs[i].pc = "run"
    /\ reqs' = SetReq(i, [reqs[i] EXCEPT !.pc = "done"])
    /\ agent_objs' = [agent_objs EXCEPT ![reqs[i].agent].state = "finished",
                                        ![reqs[i].agent].error = ~ok]
    /\ UNCHANGED <<browser_sessions, controllers, file_systems, agents, handles,
                   clock, phase, stop>>

\* list_sessions at its `for` statement: the iterator yields the next item
\* and the loop body suspends resolving that session's page, or the loop is
\* over and the summaries are returned.  The iterator raises RuntimeError
\* when the dict has another size than when the iteration began, or holds
\* an item more after it has yielded as many as it had; list_sessions has no
\* try around the loop, so the error leaves the handler and the framework
\* answers 500.  The items come in insertion order, which the maps do not
\* keep: any order is allowed.
standalone_ListAdvance(i, rec) ==
    LET rest == DOMAIN browser_sessions \ rec.it.visited
    IN IF \/ Cardinality(DOMAIN browser_sessions) # rec.it.size
          \/ rec.it.left = 0 /\ rest # {}
       THEN reqs' = SetReq(i, Respond(rec, 500, "RuntimeError"))
       ELSE IF rest = {}
            THEN reqs' = SetReq(i, Respond(rec, 200, "listed"))
            ELSE \E k \in rest :
                    reqs' = SetReq(i, [rec EXCEPT
                                !.pc = "page",
                                !.it = [@ EXCEPT !.cur = k,
                                                 !.obj = browser_sessions[k],
                                                 !.visited = @ \cup {k},
                                                 !.left = @ - 1]])

\* GET /sessions arrives
standalone_list_sessions ==
    /\ phase = "serving"
    /\ Len(reqs) < MaxRequests
    /\ LET n == Cardinality(DOMAIN browser_sessions)
       IN standalone_ListAdvance(Len(reqs) + 1,
                      [NewReq("list_sessions", None, 0, FALSE)
                          EXCEPT !.it = [NoIter EXCEPT !.size = n, !.left = n]])
    /\ UNCHANGED <<browser_sessions, controllers, file_systems, agents, handles,
                   agent_objs, clock, phase, stop>>

\* `await session.get_current_page()` and `await current_page.title()`
\* return, or one of them raises, in list_sessions' loop body (one
\* suspension: the handler reads no state between the two); the summary is
\* appended with `session_id in server_state.agents` as its has_agent
standalone_ResumeList(i, ok) ==
    /\ reqs[i].pc = "page"
    /\ LET rec == reqs[i]
           summary == [session_id |-> rec.it.cur, error |-> ~ok,
                       has_agent |-> rec.it.cur \in DOMAIN agents]
       IN standalone_ListAdvance(i, [rec EXCEPT !.sessions = Append(@, summary)])
    /\ UNCHANGED <<browser_sessions, controllers, file_systems, agents, handles,
                   agent_objs, clock, phase, stop>>

\* `"running" if is_running else "completed"`
standalone_TaskStatus(a) == IF Running(a) THEN "running" ELSE "completed"

\* GET /agent/task/{task_id} arrives; the handler has no await and no try
\* block, so its HTTPException(404) reaches the client as it is
standalone_get_agent_task_status(tid) ==
    /\ phase = "serving"
    /\ Len(reqs) < MaxRequests
    /\ LET i == Len(reqs) + 1
           rec == [NewReq("get_agent_task_status", None, 0, FALSE)
                       EXCEPT !.task_id = tid]
       IN IF tid \notin DOMAIN agents
          THEN reqs' = SetReq(i, Respond(rec, 404, "404: Task not found"))
          ELSE LET a == agents[tid]
               IN reqs' = SetReq(i, [Respond(rec, 200, standalone_TaskStatus(a))
                                        EXCEPT !.agent = a,
                                               !.errors = HistoryErrors(a)])
    /\ UNCHANGED <<browser_sessions, controllers, file_systems, agents, handles,
                   agent_objs, clock, phase, stop>>

\* ServerState.cleanup moves on to the next item and suspends in its
\* teardown, or falls out of the last loop and returns.  `loop` is the loop
\* it is in, `st` its state after the item just handled.  Iterating a dict
\* whose size has changed since the loop began raises RuntimeError from the
\* `for` statement, outside the per-item try.  The items come in the dict's
\* insertion order, which the maps do not keep: any order is allowed.
standalone_CleanupAdvance(loop, st) ==
    LET m == IF loop = "agents" THEN agents ELSE browser_sessions
        rest == DOMAIN m \ st.visited
    IN IF Cardinality(DOMAIN m) # st.size
       THEN stop' = [st EXCEPT !.pc = "raised", !.cur = None, !.obj = 0]
       ELSE IF rest # {}
            THEN \E k \in rest :
                    stop' = [st EXCEPT !.pc = loop, !.cur = k, !.obj = m[k],
                                       !.visited = @ \cup {k}]
            ELSE IF loop = "agents"
                 THEN \* for session_id, session in self.browser_sessions.items()
                      LET n == Cardinality(DOMAIN browser_sessions)
                          st2 == [st EXCEPT !.visited = {}, !.size = n]
                      IN IF n = 0
                         THEN stop' = [st2 EXCEPT !.pc = "done", !.cur = None,
                                                  !.obj = 0]
                         ELSE \E k \in DOMAIN browser_sessions :
                                 stop' = [st2 EXCEPT !.pc = "sessions",
                                              !.cur = k,
                                              !.obj = browser_sessions[k],
                                              !.visited = {k}]
                 ELSE stop' = [st EXCEPT !.pc = "done", !.cur = None, !.obj = 0]

\* lifespan after its `yield`: `await server_state.cleanup()`, up to the
\* first teardown it awaits.  The server has stopped accepting requests and
\* every handler has answered; background tasks may still be running.
standalone_lifespan_shutdown ==
    /\ phase = "serving"
    /\ \A i \in Reqs : reqs[i].pc \in {"done", "bg", "run"}
    /\ standalone_CleanupAdvance("agents", [IdleCleanup EXCEPT
                                    !.size = Cardinality(DOMAIN agents)])
    /\ phase' = IF stop'.pc = "done" THEN "stopped" ELSE "stopping"
    /\ UNCHANGED <<browser_sessions, controllers, file_systems, agents, handles,
                   agent_objs, clock, reqs>>

\* the teardown cleanup awaits returns or raises; `except Exception` logs
\* the raise and the loop goes on
standalone_ResumeCleanup(ok) ==
    /\ stop.pc \in {"agents", "sessions"}
    /\ LET st == IF stop.pc = "agents"
                 THEN [stop EXCEPT !.closed = @ \cup {stop.obj}]
                 ELSE [stop EXCEPT !.stopped = @ \cup {stop.obj}]
       IN standalone_CleanupAdvance(stop.pc,
              IF ok THEN st ELSE [st EXCEPT !.failed = @ \cup {stop.cur}])
    /\ agent_objs' = IF ok /\ stop.pc = "agents"
                     THEN [agent_objs EXCEPT ![stop.obj].closed = @ + 1]
                     ELSE agent_objs
    /\ handles' = IF ok /\ stop.pc = "sessions"
                  THEN [handles EXCEPT ![stop.obj].state = "stopped"]
                  ELSE handles
    /\ phase' = IF stop'.pc = "done" THEN "stopped"
                ELSE IF stop'.pc = "raised" THEN "crashed" ELSE phase
    /\ UNCHANGED <<browser_sessions, controllers, file_systems, agents, clock,
                   reqs>>

\* --------------------------------------------------------- specifications
Next ==
    \/ lifespan_startup
    \/ \E sid \in CreateIds, ms \in Clock : create_session(sid, ms)
    \/ \E sid \in CloseIds : close_session(sid)
    \/ \E sid \in ActionIds : browser_navigate(sid)
    \/ \E sid \in ActionIds, ms \in Clock, key \in BOOLEAN :
          run_agent_task(sid, ms, key)
    \/ \E i \in Reqs, outcome \in StartOutcomes : ResumeStart(i, outcome)
    \/ \E i \in Reqs, ok \in BOOLEAN : ResumeAct(i, ok)
    \/ \E i \in Reqs, ok \in BOOLEAN : ResumeAgentClose(i, ok)
    \/ \E i \in Reqs, ok \in BOOLEAN : ResumeStop(i, ok)
    \/ \E i \in Reqs : BgStart(i)
    \/ \E i \in Reqs, ok \in BOOLEAN : BgFinish(i, ok)

Spec == Init /\ [][Next]_vars

\* The task side of the server: launches and status queries, with the
\* session whose id a task id can collide with.
TaskIds == {GenTaskId(0), GenTaskId(1), GenRetryTaskId(0)}
LaunchIds == {Default, S1}
TaskCloseIds == {T0}

NextTasks ==
    \/ lifespan_startup
    \/ create_session(T0, 0)
    \/ \E sid \in TaskCloseIds : close_session(sid)
    \/ \E sid \in LaunchIds, ms \in Clock, key \in BOOLEAN :
          run_agent_task(sid, ms, key)
    \/ \E ms \in Clock, key \in BOOLEAN : retry_with_browser_use_agent(ms, key)
    \/ \E tid \in TaskIds : get_agent_task_status(tid)
    \/ \E i \in Reqs, outcome \in StartOutcomes : ResumeStart(i, outcome)
    \/ \E i \in Reqs, ok \in BOOLEAN : ResumeAgentClose(i, ok)
    \/ \E i \in Reqs, ok \in BOOLEAN : ResumeStop(i, ok)
    \/ \E i \in Reqs : BgStart(i)
    \/ \E i \in Reqs, ok \in BOOLEAN : BgFinish(i, ok)
    \/ \E i \in Reqs, ok \in BOOLEAN : ResumeBgClose(i, ok)

SpecTasks == Init /\ [][NextTasks]_vars

\* Listing: sessions are created, closed and launched on while
\* list_sessions iterates over them.
ListCreateIds == {S1, T0}

NextList ==
    \/ lifespan_startup
    \/ \E sid \in ListCreateIds : create_session(sid, 0)
    \/ close_session(S1)
    \/ run_agent_task(Default, 0, TRUE)
    \/ list_sessions
    \/ \E i \in Reqs : ResumeStart(i, "ok")
    \/ \E i \in Reqs, ok \in BOOLEAN : ResumeStop(i, ok)
    \/ \E i \in Reqs, ok \in BOOLEAN : ResumeList(i, ok)
    \/ \E i \in Reqs : BgStart(i)
    \/ \E i \in Reqs, ok \in BOOLEAN : BgFinish(i, ok)

SpecList == Init /\ [][NextList]_vars

\* Content extraction among creates and closes of the sessions it names,
\* with and without the credential, every construction outcome included.
ExtractIds == {Default, S1}

NextExtract ==
    \/ lifespan_startup
    \/ \E sid \in ExtractIds : create_session(sid, 0)
    \/ \E sid \in ExtractIds : close_session(sid)
    \/ \E sid \in ExtractIds, key \in BOOLEAN : browser_extract_content(sid, key)
    \/ \E i \in Reqs, outcome \in StartOutcomes : ResumeStart(i, outcome)
    \/ \E i \in Reqs, ok \in BOOLEAN : ResumeStop(i, ok)
    \/ \E i \in Reqs, ok \in BOOLEAN : ResumeExtract(i, ok)

SpecExtract == Init /\ [][NextExtract]_vars

\* Both servers' shared operations from every state either reaches: a
\* session named like a task id is created and closed, tasks are launched
\* on "default" with and without the credential, sessions are listed, the
\* task is queried, and the server shuts down.
NextBoth ==
    \/ lifespan_startup
    \/ standalone_lifespan_startup
    \/ create_session(T0, 0)
    \/ standalone_create_session(T0, 0)
    \/ close_session(T0)
    \/ standalone_close_session(T0)
    \/ \E key \in BOOLEAN : run_agent_task(Default, 0, key)
    \/ \E key \in BOOLEAN : standalone_run_agent_task(Default, 0, key)
    \/ list_sessions
    \/ standalone_list_sessions
    \/ get_agent_task_status(T0)
    \/ standalone_get_agent_task_status(T0)
    \/ \E i \in Reqs, outcome \in StartOutcomes : ResumeStart(i, outcome)
    \/ \E i \in Reqs, outcome \in StartOutcomes :
          standalone_ResumeStart(i, outcome)
    \/ \E i \in Reqs, ok \in BOOLEAN : ResumeAgentClose(i, ok)
    \/ \E i \in Reqs, ok \in BOOLEAN : standalone_ResumeAgentClose(i, ok)
    \/ \E i \in Reqs, ok \in BOOLEAN : ResumeStop(i, ok)
    \/ \E i \in Reqs, ok \in BOOLEAN : standalone_ResumeStop(i, ok)
    \/ \E i \in Reqs, ok \in BOOLEAN : ResumeList(i, ok)
    \/ \E i \in Reqs, ok \in BOOLEAN : standalone_ResumeList(i, ok)
    \/ \E i \in Reqs : BgStart(i)
    \/ \E i \in Reqs : standalone_BgStart(i)
    \/ \E i \in Reqs, ok \in BOOLEAN : BgFinish(i, ok)
    \/ \E i \in Reqs, ok \in BOOLEAN : standalone_BgFinish(i, ok)
    \/ lifespan_shutdown
    \/ standalone_lifespan_shutdown
    \/ \E ok \in BOOLEAN : ResumeCleanup(ok)
    \/ \E ok \in BOOLEAN : standalone_ResumeCleanup(ok)

SpecBoth == Init /\ [][NextBoth]_vars

\* Closing under a running task: sessions, "default" and one named like a
\* task id, are launched on and closed.
CloseUnderTaskIds == {Default, T0}

NextClose ==
    \/ lifespan_startup
    \/ create_session(T0, 0)
    \/ \E sid \in CloseUnderTaskIds : run_agent_task(sid, 0, TRUE)
    \/ \E sid \in CloseUnderTaskIds : close_session(sid)
    \/ get_agent_task_status(T0)
    \/ \E i \in Reqs, outcome \in StartOutcomes : ResumeStart(i, outcome)
    \/ \E i \in Reqs, ok \in BOOLEAN : ResumeAgentClose(i, ok)
    \/ \E i \in Reqs, ok \in BOOLEAN : ResumeStop(i, ok)
    \/ \E i \in Reqs : BgStart(i)
    \/ \E i \in Reqs, ok \in BOOLEAN : BgFinish(i, ok)

SpecClose == Init /\ [][NextClose]_vars

\* the event loop runs a scheduled background task in the end, and an
\* agent's run returns or raises within its max_steps
SpecCloseFair ==
    /\ SpecClose
    /\ \A i \in 1..MaxRequests :
          /\ WF_vars(i \in Reqs /\ BgStart(i))
          /\ WF_vars(i \in Reqs /\ \E ok \in BOOLEAN : BgFinish(i, ok))

\* Process stop: the registries are filled by creates and launches, then the
\* lifespan context manager leaves its `yield`.
NextStop ==
    \/ lifespan_startup
    \/ create_session(S1, 0)
    \/ \E ms \in Clock : run_agent_task(Default, ms, TRUE)
    \/ retry_with_browser_use_agent(0, TRUE)
    \/ \E i \in Reqs : ResumeStart(i, "ok")
    \/ \E i \in Reqs : BgStart(i)
    \/ \E i \in Reqs : BgFinish(i, TRUE)
    \/ \E i \in Reqs, ok \in BOOLEAN : ResumeBgClose(i, ok)
    \/ lifespan_shutdown
    \/ \E ok \in BOOLEAN : ResumeCleanup(ok)

SpecStop == Init /\ [][NextStop]_vars

\* a teardown that cleanup awaits returns or raises in the end, and the
\* event loop then resumes cleanup
SpecStopFair == SpecStop /\ WF_vars(\E ok \in BOOLEAN : ResumeCleanup(ok))

\* ================================================================= claims
ActionOps == {"browser_navigate", "run_agent_task"}
Arrival == Len(reqs') = Len(reqs) + 1
Arrived == reqs'[Len(reqs')]
Registered(x) == x \in DOMAIN browser_sessions
\* some create(x) has answered 200
Created(x) ==
    \E j \in Reqs : /\ reqs[j].op = "create_session"
                    /\ reqs[j].session_id = x
                    /\ reqs[j].status = 200
\* some close(x) has answered 200
Closed(x) ==
    \E j \in Reqs : /\ reqs[j].op = "close_session"
                    /\ reqs[j].sid = x
                    /\ reqs[j].status = 200

\* C1: once create(x) has succeeded and while x is registered, a get(x)
\* returns the handle registered under x, and a further create(x) is answered
\* AlreadyExists (400) and leaves the session, dispatcher and sandbox maps
\* unchanged.
C1_DuplicateCreate ==
    [][\A x \in CreateIds \ {None} :
          (Created(x) /\ Registered(x) /\ Arrival /\ Arrived.sid = x)
          => /\ Arrived.op \in ActionOps => Arrived.session = browser_sessions[x]
             /\ Arrived.op = "create_session"
                => /\ Arrived.status = 400
                   /\ UNCHANGED <<browser_sessions, controllers, file_systems>>]_vars

\* C2: at most one bundle per id: every handle that is started and not
\* stopped is the one registered under the id it was created for.
C2_OneBundlePerId ==
    \A h \in Handles :
        handles[h].state = "started"
        => /\ Registered(handles[h].sid)
           /\ browser_sessions[handles[h].sid] = h

\* C3: every get("default") whose implicit creation does not fail returns
\* a handle, and while no close("default") was issued all of them return
\* the same handle.
C3_DefaultSameBundle ==
    LET gets == {i \in Reqs : /\ reqs[i].op \in ActionOps
                              /\ reqs[i].sid = Default
                              /\ reqs[i].session # 0}
    IN /\ \A i \in Reqs :
            (/\ reqs[i].op \in ActionOps /\ reqs[i].sid = Default
             /\ reqs[i].pc # "start" /\ reqs[i].detail \notin StartOutcomes)
            => i \in gets
       /\ (\A j \in Reqs : ~(reqs[j].op = "close_session" /\ reqs[j].sid = Default))
          => \A i, j \in gets : reqs[i].session = reqs[j].session

\* C4: until a close("default") succeeds, at most one implicit creation of
\* the default bundle starts an automation handle.
C4_OneImplicitCreation ==
    ~Closed(Default)
    => Cardinality({i \in Reqs : /\ reqs[i].op \in ActionOps
                                 /\ reqs[i].new # 0
                                 /\ handles[reqs[i].new].state = "started"}) <= 1

\* C5: after a close(x) has succeeded and left x unregistered, a get(x)
\* raises NotFound (404) and creates nothing when x is not "default"; for
\* "default" it constructs a new handle, and once that handle has started
\* and the bundle is built, get returns that handle, started and registered.
C5_GetAfterClose ==
    [][/\ (Arrival /\ Arrived.op \in ActionOps
                   /\ Closed(Arrived.sid) /\ ~Registered(Arrived.sid))
          => IF Arrived.sid # Default
             THEN /\ Arrived.raised = 404
                  /\ Arrived.session = 0
                  /\ UNCHANGED <<browser_sessions, controllers, file_systems,
                                 handles>>
             ELSE /\ Arrived.pc = "start"
                  /\ Arrived.new = Len(handles) + 1
                  /\ handles'[Arrived.new].state = "starting"
       /\ \A i \in Reqs :
            (/\ reqs[i].op \in ActionOps /\ Closed(Default)
             /\ reqs[i].pc = "start" /\ reqs'[i].pc # "start"
             /\ reqs'[i].raised # 500)
            => /\ reqs'[i].session = reqs[i].new
               /\ handles'[reqs[i].new].state = "started"
               /\ browser_sessions'[Default] = reqs[i].new]_vars

\* the default bundle was provisioned, closed, and provisioned again by the
\* next reference: handle 1 is stopped, handle 2 is started and registered
C5_Witness ==
    /\ Len(reqs) = 3 /\ Len(handles) = 2
    /\ reqs[1].op \in ActionOps /\ reqs[1].sid = Default /\ reqs[1].new = 1
    /\ reqs[2].op = "close_session" /\ reqs[2].sid = Default
    /\ reqs[2].status = 200 /\ reqs[2].session = 1
    /\ reqs[3].op \in ActionOps /\ reqs[3].sid = Default
    /\ reqs[3].new = 2 /\ reqs[3].session = 2
    /\ handles[1].state = "stopped" /\ handles[2].state = "started"
    /\ browser_sessions[Default] = 2

\* C6: an operation on a session id that was never created and is not
\* "default" is answered NotFound (404), and it changes no map and
\* constructs no handle.
C6_GhostNotFound ==
    [][(/\ Arrival /\ Arrived.op \in ActionOps /\ Arrived.sid # Default
        /\ \A j \in Reqs : reqs[j].session_id # Arrived.sid)
       => /\ Arrived.status = 404
          /\ UNCHANGED <<browser_sessions, controllers, file_systems, agents,
                         handles, agent_objs>>]_vars

\* C7: a creation that failed (start, dispatcher or sandbox raised) has left
\* no entry for its handle in the session, dispatcher or sandbox map.
C7_AtomicCreate ==
    \A i \in Reqs :
        (reqs[i].pc = "done" /\ reqs[i].detail \in StartOutcomes \ {"ok"})
        => LET id == reqs[i].session_id
               h == reqs[i].new
           IN /\ ~(id \in DOMAIN browser_sessions /\ browser_sessions[id] = h)
              /\ ~(id \in DOMAIN controllers /\ controllers[id] = h)
              /\ ~(id \in DOMAIN file_systems /\ file_systems[id] = h)

\* C8: a create without an id picks an id that is unregistered when it is
\* called (so it is not refused as a duplicate), and the id is still
\* unregistered when the new handle is registered under it.
C8_FreshGeneratedId ==
    [][/\ (Arrival /\ Arrived.op = "create_session" /\ Arrived.sid = None)
          => /\ ~Registered(Arrived.session_id)
             /\ Arrived.raised # 400
       /\ \A i \in Reqs :
            (/\ reqs[i].op = "create_session" /\ reqs[i].sid = None
             /\ reqs[i].pc = "start" /\ reqs'[i].status = 200)
            => ~Registered(reqs[i].session_id)]_vars

\* C9: the step in which close(x) succeeds stops the handle close looked up
\* under x (a handle created for x), removes x from the session, dispatcher
\* and sandbox maps, and changes no other entry and no other handle.
C9_CloseRemoves ==
    [][\A i \in Reqs :
          (/\ reqs[i].op = "close_session"
           /\ reqs[i].status = 0 /\ reqs'[i].status = 200)
          => LET x == reqs[i].sid
                 h == reqs[i].session
             IN /\ handles[h].sid = x
                /\ handles' = [handles EXCEPT ![h].state = "stopped"]
                /\ x \in DOMAIN browser_sessions
                /\ browser_sessions' = Del(browser_sessions, x)
                /\ controllers' = Del(controllers, x)
                /\ file_systems' = Del(file_systems, x)]_vars

\* close("s1") has succeeded: its handle is stopped, "s1" is in no map, and
\* the default session is still registered with dispatcher and sandbox
C9_Witness ==
    /\ \E i \in Reqs : /\ reqs[i].op = "close_session" /\ reqs[i].sid = S1
                       /\ reqs[i].status = 200
                       /\ handles[reqs[i].session].state = "stopped"
    /\ S1 \notin DOMAIN browser_sessions \cup DOMAIN controllers
                   \cup DOMAIN file_systems
    /\ Default \in DOMAIN browser_sessions \cap DOMAIN controllers
                     \cap DOMAIN file_systems
    /\ handles[browser_sessions[Default]].state = "started"

\* C10: close on an unregistered id is answered NotFound (404), stops no
\* handle and changes no map.
C10_CloseUnknown ==
    [][(Arrival /\ Arrived.op = "close_session" /\ ~Registered(Arrived.sid))
       => /\ Arrived.status = 404
          /\ UNCHANGED <<browser_sessions, controllers, file_systems, agents,
                         handles, agent_objs>>]_vars

\* C11: launch answers with its task id before the agent run begins: at the
\* step in which a run_agent_task request is answered 200 its task id is
\* registered for its agent and that agent has not begun to run, and an
\* agent has left "created" only if the request that launched it had
\* already been answered.
C11_ReturnsBeforeRun ==
    [][\A i \in 1..Len(reqs') :
          LET r == reqs'[i]
              answered == i <= Len(reqs) /\ reqs[i].status = 200
          IN r.op = "run_agent_task" /\ r.status = 200 =>
                /\ ~answered =>
                      /\ r.task_id \in DOMAIN agents'
                      /\ agents'[r.task_id] = r.agent
                      /\ agent_objs'[r.agent].state = "created"
                /\ agent_objs'[r.agent].state # "created" => answered]_vars

\* a launched task whose background run is in progress
C11_Witness ==
    \E i \in Reqs : /\ reqs[i].op = "run_agent_task"
                    /\ reqs[i].status = 200
                    /\ reqs[i].pc = "run"
                    /\ agent_objs[reqs[i].agent].state = "running"

\* agent a was constructed by a run_agent_task request
Launched(a) ==
    \E i \in Reqs : reqs[i].op = "run_agent_task" /\ reqs[i].agent = a

\* C12: the states that status reports for a launched task are some number
\* of "running" followed only by "completed": a query is answered
\* "completed" only when the task's run has finished, and once a query of a
\* task id was answered "completed" no later query of it is answered
\* "running".
C12_RunningThenCompleted ==
    [][(/\ Arrival
        /\ Arrived.op = "get_agent_task_status"
        /\ Arrived.status = 200
        /\ Launched(Arrived.agent))
        => /\ Arrived.detail = "completed"
                 => agent_objs[Arrived.agent].state = "finished"
           /\ \A j \in Reqs :
                 (/\ reqs[j].op = "get_agent_task_status"
                  /\ reqs[j].task_id = Arrived.task_id
                  /\ reqs[j].status = 200
                  /\ reqs[j].detail = "completed")
                 => Arrived.detail = "completed"]_vars

C14_LaunchRefused ==
    [][\A i \in 1..Len(reqs') :
          LET r == reqs'[i]
              new == i > Len(reqs)
          IN (/\ r.op = "run_agent_task"
              /\ r.status # 0
              /\ new \/ reqs[i].status = 0)
             => /\ (r.session # 0 /\ ~r.api_key)
                    => /\ r.status = 400
                       /\ r.pc = "done"
                       /\ agents' = agents /\ agent_objs' = agent_objs
                /\ (new /\ r.sid # Default /\ r.sid \notin DOMAIN browser_sessions)
                    => /\ r.status = 404
                       /\ r.pc = "done"
                       /\ agents' = agents /\ agent_objs' = agent_objs]_vars

LaunchOps == {"run_agent_task", "retry_with_browser_use_agent"}

\* C15: task ids are unique over any sequence of launch and launchDetached
\* calls, whatever the clock reads: a launch that is answered 200 returns a
\* task id that no earlier launch returned, and its registration replaces
\* no registered task.
C15_UniqueTaskIds ==
    [][\A i \in 1..Len(reqs') :
          LET r == reqs'[i]
          IN (/\ r.op \in LaunchOps
              /\ r.status = 200
              /\ i > Len(reqs) \/ reqs[i].status = 0)
             => /\ r.task_id \notin DOMAIN agents
                /\ \A j \in Reqs :
                      (j # i /\ reqs[j].op \in LaunchOps)
                      => reqs[j].task_id # r.task_id]_vars

\* C16: a task never disappears while the server serves: every task id that
\* a launch or a detached launch has returned is still registered, so that
\* a status query of it is answered.
C16_TaskStaysRegistered ==
    \A i \in Reqs :
        (reqs[i].op \in LaunchOps /\ reqs[i].status = 200)
        => reqs[i].task_id \in DOMAIN agents

\* C17: a status query of a task id that no launch has returned fails with
\* NotFound (404) and changes no state.
C17_StatusUnknown ==
    [][(/\ Arrival
        /\ Arrived.op = "get_agent_task_status"
        /\ \A j \in Reqs : (reqs[j].op \in LaunchOps /\ reqs[j].status = 200)
                            => reqs[j].task_id # Arrived.task_id)
        => /\ Arrived.status = 404
           /\ Arrived.pc = "done"
           /\ UNCHANGED <<browser_sessions, controllers, file_systems, agents,
                          handles, agent_objs, clock, phase, stop>>
           /\ \A j \in Reqs : reqs'[j] = reqs[j]]_vars

\* a query of an unknown task id was refused while another task is registered
C17_Witness ==
    \E j \in Reqs : /\ reqs[j].op = "get_agent_task_status"
                    /\ reqs[j].status = 404
                    /\ reqs[j].task_id \notin DOMAIN agents
                    /\ DOMAIN agents # {}

\* C18: when cleanup is over it has attempted the close of the agent of
\* every registered task and the stop of the handle of every registered
\* session, whichever of these teardowns raised.
C18_AllTeardownsAttempted ==
    stop.pc \in {"done", "raised"}
    => /\ \A k \in DOMAIN agents : agents[k] \in stop.closed
       /\ \A k \in DOMAIN browser_sessions :
             browser_sessions[k] \in stop.stopped

\* cleanup is over, a teardown of an agent and one of a session raised, and
\* there was more than one of each to tear down
C18_Witness ==
    /\ stop.pc = "done"
    /\ Cardinality(DOMAIN agents) >= 2
    /\ Cardinality(DOMAIN browser_sessions) >= 2
    /\ stop.failed \cap DOMAIN agents # {}
    /\ stop.failed \cap DOMAIN browser_sessions # {}
    /\ stop.failed # DOMAIN agents \cup DOMAIN browser_sessions

\* C19: process stop always returns control and never raises, however many
\* teardowns fail and whatever background runs are in flight: cleanup never
\* ends in an exception, and once it has begun it returns.
C19_StopReturns ==
    /\ [](stop.pc # "raised" /\ phase # "crashed")
    /\ (phase = "stopping") ~> (phase = "stopped")

\* cleanup has returned although a teardown raised and a background run is
\* still in flight
C19_Witness ==
    /\ phase = "stopped"
    /\ stop.pc = "done"
    /\ stop.failed # {}
    /\ \E i \in Reqs : reqs[i].pc \in {"bg", "run", "bg_close"}

\* C20: process start creates no session: once the server serves, the four
\* registries are empty and no automation handle has been constructed, and
\* this stays so as long as no create, no action or launch that names
\* "default" and no detached launch has arrived.
C20_StartCreatesNothing ==
    (/\ phase # "imported"
     /\ \A i \in Reqs :
           /\ reqs[i].op # "create_session"
           /\ reqs[i].op # "retry_with_browser_use_agent"
           /\ reqs[i].op \in ActionOps => reqs[i].sid # Default)
    => /\ browser_sessions = EmptyMap
       /\ controllers = EmptyMap
       /\ file_systems = EmptyMap
       /\ agents = EmptyMap
       /\ handles = << >>
       /\ agent_objs = << >>

\* the server has started and has answered a close, an action and a launch
\* on ids that are not registered: nothing was created
C20_Witness ==
    /\ phase = "serving"
    /\ Len(reqs) = MaxRequests
    /\ \A i \in Reqs : reqs[i].status = 500
    /\ \E i \in Reqs : reqs[i].op = "close_session"
    /\ \E i \in Reqs : reqs[i].op = "browser_navigate" /\ reqs[i].sid = S1
    /\ \E i \in Reqs : reqs[i].op = "run_agent_task" /\ reqs[i].sid = S1
    /\ browser_sessions = EmptyMap
    /\ agents = EmptyMap

\* the request's coroutine i takes this step
Steps(i) == i > Len(reqs) \/ reqs'[i] # reqs[i]

\* C21: a detached launch never adds, replaces or removes an entry of the
\* session registry and constructs no automation handle, although it is
\* given a session id; when its background run ends, by returning or by
\* raising, it goes on to close its agent, and whether that close returns
\* or raises the background task ends with every answer as it was.
C21_DetachedLaunch ==
    [][\A i \in 1..Len(reqs') :
          (reqs'[i].op = "retry_with_browser_use_agent" /\ Steps(i))
          => /\ UNCHANGED <<browser_sessions, controllers, file_systems,
                            handles>>
             /\ (i <= Len(reqs) /\ reqs[i].pc = "run")
                   => reqs'[i].pc = "bg_close"
             /\ (i <= Len(reqs) /\ reqs[i].pc = "bg_close")
                   => /\ reqs'[i].pc = "done"
                      /\ agent_objs'[reqs[i].agent].closed
                            \in {agent_objs[reqs[i].agent].closed,
                                 agent_objs[reqs[i].agent].closed + 1}
                      /\ \A j \in Reqs : /\ reqs'[j].status = reqs[j].status
                                          /\ reqs'[j].raised = reqs[j].raised]_vars

\* a detached launch given "default" has ended: its run raised, the close of
\* its agent raised as well, and no session "default" was provisioned
C21_Witness ==
    \E i \in Reqs : /\ reqs[i].op = "retry_with_browser_use_agent"
                    /\ reqs[i].sid = Default
                    /\ reqs[i].status = 200
                    /\ reqs[i].pc = "done"
                    /\ agent_objs[reqs[i].agent].error
                    /\ agent_objs[reqs[i].agent].closed = 0
                    /\ Default \notin DOMAIN browser_sessions
                    /\ handles = << >>

\* C22: the end of a run started by launch, by returning or by raising,
\* tears nothing down: the background task is over with that step, the
\* agent is not closed, no automation handle changes, and the session,
\* dispatcher, sandbox and task maps are as they were.
C22_LaunchEndTearsNothingDown ==
    [][\A i \in Reqs :
          (/\ reqs[i].op = "run_agent_task"
           /\ reqs[i].pc = "run"
           /\ reqs'[i] # reqs[i])
          => /\ reqs'[i].pc = "done"
             /\ agent_objs'[reqs[i].agent].state = "finished"
             /\ agent_objs'[reqs[i].agent].closed
                   = agent_objs[reqs[i].agent].closed
             /\ UNCHANGED <<browser_sessions, controllers, file_systems,
                            agents, handles>>]_vars

\* a launched run has raised and ended: its agent is registered and not
\* closed, its session is registered and its handle is started
C22_Witness ==
    \E i \in Reqs : /\ reqs[i].op = "run_agent_task"
                    /\ reqs[i].status = 200
                    /\ reqs[i].pc = "done"
                    /\ agent_objs[reqs[i].agent].error
                    /\ agent_objs[reqs[i].agent].closed = 0
                    /\ reqs[i].task_id \in DOMAIN agents
                    /\ agents[reqs[i].task_id] = reqs[i].agent
                    /\ reqs[i].sid \in DOMAIN browser_sessions
                    /\ browser_sessions[reqs[i].sid] = reqs[i].session
                    /\ handles[reqs[i].session].state = "started"

\* the session ids of the summaries a list_sessions request holds
Listed(r) == {r.sessions[n].session_id : n \in 1..Len(r.sessions)}

\* C23: list returns exactly one summary per registered session, also when
\* resolving a session's page raises: each resumption of its loop body
\* appends the summary of the session it worked on and keeps the summaries
\* it had, and the request is answered 200 with one summary for each
\* session registered then and no other.
C23_ListOnePerSession ==
    [][\A i \in 1..Len(reqs') :
          (reqs'[i].op = "list_sessions" /\ Steps(i))
          => /\ (i <= Len(reqs) /\ reqs[i].pc = "page")
                   => /\ Len(reqs'[i].sessions) = Len(reqs[i].sessions) + 1
                      /\ SubSeq(reqs'[i].sessions, 1, Len(reqs[i].sessions))
                            = reqs[i].sessions
                      /\ reqs'[i].sessions[Len(reqs'[i].sessions)].session_id
                            = reqs[i].it.cur
             /\ reqs'[i].pc = "done"
                   => /\ reqs'[i].status = 200
                      /\ Listed(reqs'[i]) = DOMAIN browser_sessions
                      /\ Len(reqs'[i].sessions)
                            = Cardinality(DOMAIN browser_sessions)]_vars

\* some registered task was launched against session x
TaskOn(x) ==
    \E tid \in DOMAIN agents, j \in Reqs :
        /\ reqs[j].op = "run_agent_task"
        /\ reqs[j].agent = agents[tid]
        /\ reqs[j].sid = x

\* C24: in every summary that list appends, the has_agent flag of session s
\* is true exactly when some registered task was launched against s.
C24_HasAgentFlag ==
    [][\A i \in Reqs :
          (/\ reqs[i].op = "list_sessions"
           /\ Len(reqs'[i].sessions) = Len(reqs[i].sessions) + 1)
          => LET s == reqs'[i].sessions[Len(reqs'[i].sessions)]
             IN s.has_agent <=> TaskOn(s.session_id)]_vars

\* a registered task launched against session x is in its run
TaskMidRunOn(x) ==
    \E tid \in DOMAIN agents, j \in Reqs :
        /\ reqs[j].op = "run_agent_task"
        /\ reqs[j].agent = agents[tid]
        /\ reqs[j].sid = x
        /\ agent_objs[agents[tid]].state = "running"

\* C25: a close of session x while a task launched against x is in its run
\* is not blocked or rejected, and the task stays registered: a close that
\* arrives for registered x goes straight to stopping the handle, no step
\* of the close changes the task map, and when it is answered 200 the
\* handle is stopped and x is no longer registered.
C25_CloseUnderRunningTask ==
    [][\A i \in 1..Len(reqs') :
          (/\ reqs'[i].op = "close_session"
           /\ Steps(i)
           /\ TaskMidRunOn(reqs'[i].sid))
          => /\ agents' = agents
             /\ (i > Len(reqs) /\ reqs'[i].sid \in DOMAIN browser_sessions)
                   => reqs'[i].pc = "stop"
             /\ reqs'[i].status = 200
                   => /\ reqs'[i].sid \notin DOMAIN browser_sessions'
                      /\ handles'[reqs'[i].session].state = "stopped"]_vars

\* C26: lookup-then-await is not atomic.  An action that is suspended on the
\* handle it resolved stays suspended on that handle whatever the other
\* coroutines do, a close of its session included, and when it resumes it
\* is answered for that handle, registered or not, with the result of the
\* await alone: nothing looks the session up again.
C26_LookupThenAwait ==
    [][\A i \in Reqs :
          (reqs[i].op = "browser_navigate" /\ reqs[i].pc = "act")
          => \/ reqs'[i] = reqs[i]
             \/ /\ reqs'[i].pc = "done"
                /\ reqs'[i].session = reqs[i].session
                /\ reqs'[i].raised \in {0, 500}
                /\ UNCHANGED <<browser_sessions, controllers, file_systems,
                               agents, handles>>]_vars

\* an action has resolved its session's handle and is suspended on it, and
\* a close of that session that arrived later has been answered 200: the
\* handle is stopped and no longer registered
C26_Witness ==
    \E i, j \in Reqs :
        /\ reqs[i].op = "browser_navigate"
        /\ reqs[i].pc = "act"
        /\ reqs[j].op = "close_session"
        /\ reqs[j].sid = reqs[i].sid
        /\ reqs[j].session = reqs[i].session
        /\ reqs[j].status = 200
        /\ j > i
        /\ handles[reqs[i].session].state = "stopped"
        /\ reqs[i].sid \notin DOMAIN browser_sessions

C28_ActionFailurePropagates ==
    [][\A i \in Reqs :
          (/\ reqs[i].op = "browser_navigate"
           /\ reqs[i].pc = "act"
           /\ reqs'[i].pc = "done"
           /\ reqs'[i].detail # "navigated")
          => /\ reqs'[i].status = 500
             /\ reqs'[i].raised = 500
             /\ UNCHANGED <<browser_sessions, controllers, file_systems,
                            agents, handles, agent_objs>>]_vars

\* an action was answered with the failure its handle raised, and its session
\* is registered with that handle, its dispatcher and its sandbox
C28_Witness ==
    \E i \in Reqs :
        /\ reqs[i].op = "browser_navigate"
        /\ reqs[i].status = 500
        /\ reqs[i].detail = "navigate failed"
        /\ reqs[i].sid \in DOMAIN browser_sessions
        /\ browser_sessions[reqs[i].sid] = reqs[i].session
        /\ reqs[i].sid \in DOMAIN controllers
        /\ reqs[i].sid \in DOMAIN file_systems
        /\ handles[reqs[i].session].state = "started"

\* C29: during process stop the close of the agent of every registered task
\* has been attempted before the stop of any session's handle is attempted.
C29_AgentsBeforeSessions ==
    (stop.pc = "sessions" \/ stop.stopped # {})
    => \A k \in DOMAIN agents : agents[k] \in stop.closed

\* cleanup awaits the stop of a session's handle after it has gone through
\* two agents, the close of one of which raised
C29_Witness ==
    /\ stop.pc = "sessions"
    /\ stop.stopped = {}
    /\ Cardinality(DOMAIN agents) >= 2
    /\ stop.failed # {}
    /\ stop.failed # DOMAIN agents

\* no Controller() and no FileSystem(...) construction has raised
NoConstructionFailed ==
    \A i \in Reqs : reqs[i].detail \notin {"controller_raises",
                                            "file_system_raises"}

\* C30: provided the construction of dispatcher and sandbox does not fail,
\* the session map, the dispatcher map and the sandbox map have the same
\* key set in every state between two steps of the coroutines, under any
\* interleaving of create, close and provisioning of "default".
C30_SameKeySets ==
    NoConstructionFailed
    => /\ DOMAIN controllers = DOMAIN browser_sessions
       /\ DOMAIN file_systems = DOMAIN browser_sessions

\* a session was created and closed and "default" was provisioned by
\* an action, with no construction failure: the three maps hold "default"
C30_Witness ==
    /\ NoConstructionFailed
    /\ Created(S1)
    /\ Closed(S1)
    /\ \E i \in Reqs : /\ reqs[i].op \in ActionOps
                        /\ reqs[i].sid = Default
                        /\ reqs[i].new # 0
                        /\ reqs[i].pc # "start"
    /\ DOMAIN browser_sessions = {Default}
    /\ DOMAIN controllers = {Default}
    /\ DOMAIN file_systems = {Default}

\* some close(x) was answered with the failure of the handle's stop
CloseFailed(x) ==
    \E j \in Reqs : /\ reqs[j].op = "close_session"
                    /\ reqs[j].sid = x
                    /\ reqs[j].detail = "stop failed"

\* C31: when close(x) fails because the stop of the handle raises, the
\* caller is answered with the error (500) and x stays registered in the
\* session, dispatcher and sandbox maps; while x is registered after such a
\* failure, a further close(x) goes on to stop the handle again and a
\* create(x) is answered AlreadyExists (400) and changes nothing.
C31_CloseStopRaises ==
    [][/\ \A i \in Reqs :
            (/\ reqs[i].op = "close_session"
             /\ reqs[i].pc = "stop"
             /\ reqs'[i].detail = "stop failed")
            => /\ reqs'[i].status = 500
               /\ UNCHANGED <<browser_sessions, controllers, file_systems,
                              handles>>
       /\ (/\ Arrival
           /\ Arrived.op = "close_session"
           /\ CloseFailed(Arrived.sid)
           /\ Arrived.sid \in DOMAIN browser_sessions
           /\ Arrived.sid \notin DOMAIN agents)
          => /\ Arrived.pc = "stop"
             /\ Arrived.session = browser_sessions[Arrived.sid]
       /\ (/\ Arrival
           /\ Arrived.op = "create_session"
           /\ CloseFailed(Arrived.session_id)
           /\ Arrived.session_id \in DOMAIN browser_sessions)
          => /\ Arrived.status = 400
             /\ UNCHANGED <<browser_sessions, controllers, file_systems,
                            handles>>]_vars

\* C32: a launch made without the credential fails and, in every step it
\* takes, leaves the session registry unchanged and constructs no handle;
\* in particular a launch on "default" while no default bundle exists does
\* not provision the default session.
C32_KeylessLaunchChangesNothing ==
    [][\A i \in 1..Len(reqs') :
          (/\ reqs'[i].op = "run_agent_task"
           /\ ~reqs'[i].api_key
           /\ Steps(i))
          => /\ UNCHANGED <<browser_sessions, controllers, file_systems,
                            handles>>
             /\ reqs'[i].status # 200]_vars

\* C33: a list that was suspended on a session's page lookup, whatever
\* creates and closes completed on other sessions meanwhile, finishes
\* without failing as a whole (200), and its result has a summary for every
\* session registered when it finishes, hence for every session that stayed
\* registered all through the listing.
C33_ListSurvivesChanges ==
    [][\A i \in Reqs :
          (/\ reqs[i].op = "list_sessions"
           /\ reqs[i].pc = "page"
           /\ reqs'[i].pc = "done")
          => /\ reqs'[i].status = 200
             /\ DOMAIN browser_sessions \subseteq Listed(reqs'[i])]_vars

\* C34: over any interleaving of close calls, no two of them are suspended
\* in stop() of the same handle: a close(x) that arrives while another
\* close(x) awaits the stop of x's handle does not call stop() on that
\* handle again.
C34_StopCalledOnce ==
    \A i, j \in Reqs :
        (/\ i # j
         /\ reqs[i].op = "close_session"
         /\ reqs[j].op = "close_session"
         /\ reqs[i].pc = "stop"
         /\ reqs[j].pc = "stop")
        => reqs[i].session # reqs[j].session

\* C35: every agent is released at most once over the process lifetime:
\* the closes that returned, whether at the end of a detached launch's run,
\* in close_session or in cleanup, number at most one per agent.
C35_AgentReleasedOnce ==
    \A a \in 1..Len(agent_objs) : agent_objs[a].closed <= 1

\* C36: cleanup removes no entry: from the step that begins it to its end,
\* the session, dispatcher, sandbox and task maps stay as they were, the
\* sessions whose handle it stopped and the tasks whose agent it closed
\* included.
C36_CleanupRemovesNothing ==
    [][(phase' \in {"stopping", "stopped", "crashed"})
       => UNCHANGED <<browser_sessions, controllers, file_systems,
                      agents>>]_vars

\* cleanup has returned after it closed a registered task's agent and
\* stopped a registered session's handle, and both are still registered
C36_Witness ==
    /\ phase = "stopped"
    /\ \E tid \in DOMAIN agents : /\ agents[tid] \in stop.closed
                                   /\ agent_objs[agents[tid]].closed > 0
    /\ \E s \in DOMAIN browser_sessions :
          /\ browser_sessions[s] \in stop.stopped
          /\ handles[browser_sessions[s]].state = "stopped"
          /\ s \in DOMAIN controllers
          /\ s \in DOMAIN file_systems

\* the bundle registered under "default" was provisioned by get_session
AutoProvisioned ==
    /\ Default \in DOMAIN browser_sessions
    /\ \E j \in Reqs : /\ reqs[j].op # "create_session"
                       /\ reqs[j].new = browser_sessions[Default]

\* C37: "default" shares the namespace of explicit ids: a create("default")
\* that arrives while no default bundle is registered goes on to start a
\* handle and is answered 200 when construction succeeds; one that arrives
\* when the default bundle was auto-provisioned is answered AlreadyExists
\* (400) and changes nothing; and an action or launch on "default" that
\* arrives while "default" is registered uses the registered handle and
\* constructs none.
C37_DefaultSharesNamespace ==
    [][/\ (/\ Arrival
           /\ Arrived.op = "create_session"
           /\ Arrived.sid = Default
           /\ Default \notin DOMAIN browser_sessions)
          => /\ Arrived.pc = "start"
             /\ handles'[Arrived.new].sid = Default
       /\ \A i \in Reqs :
            (/\ reqs[i].op = "create_session"
             /\ reqs[i].sid = Default
             /\ reqs[i].pc = "start"
             /\ reqs'[i].pc = "done"
             /\ reqs'[i].detail \notin StartOutcomes)
            => /\ reqs'[i].status = 200
               /\ browser_sessions'[Default] = reqs[i].new
       /\ (/\ Arrival
           /\ Arrived.op = "create_session"
           /\ Arrived.sid = Default
           /\ AutoProvisioned)
          => /\ Arrived.status = 400
             /\ UNCHANGED <<browser_sessions, controllers, file_systems,
                            handles>>
       /\ (/\ Arrival
           /\ Arrived.op \in {"browser_navigate", "run_agent_task"}
           /\ Arrived.sid = Default
           /\ Default \in DOMAIN browser_sessions)
          => /\ Arrived.session = browser_sessions[Default]
             /\ Arrived.new = 0
             /\ UNCHANGED <<browser_sessions, controllers, file_systems,
                            handles>>]_vars

\* C38: provided no dispatcher or sandbox construction has failed, a
\* content extraction on a session that resolves finds the session's
\* dispatcher and sandbox under any interleaving with create and close: no
\* extraction is answered "not initialized"; and an extraction made without
\* the credential never invokes the dispatcher.
C38_ExtractFindsDispatcher ==
    \A i \in Reqs :
        reqs[i].op = "browser_extract_content"
        => /\ NoConstructionFailed
              => reqs[i].detail
                    # "500: Controller or FileSystem not initialized"
           /\ ~reqs[i].api_key
              => /\ reqs[i].pc # "extract"
                 /\ reqs[i].detail \notin {"extracted", "extract failed"}
           /\ reqs[i].pc = "extract"
              => reqs[i].session \in 1..Len(handles)

\* extractions have resolved their session and gone on, one past the
\* lookup of dispatcher and sandbox and one refused for the credential,
\* while a close of the same session has been answered
C38_Witness ==
    /\ NoConstructionFailed
    /\ \E i, j, k \in Reqs :
          /\ reqs[i].op = "browser_extract_content"
          /\ reqs[i].api_key
          /\ reqs[i].session # 0
          /\ reqs[i].pc = "extract"
          /\ reqs[j].op = "close_session"
          /\ reqs[j].sid = reqs[i].sid
          /\ reqs[j].status = 200
          /\ reqs[k].op = "browser_extract_content"
          /\ ~reqs[k].api_key
          /\ reqs[k].raised = 400

\* C39: the session and task operations that server.py and
\* standalone_server.py both define are equivalent: from every state that
\* runs of either reach, each operation and each resumption of one, given
\* the same request, collaborator outcome and clock reading, is a step of
\* server.py exactly when it is a step of standalone_server.py, so that
\* side-by-side runs on the same sequence give the same answers and the
\* same map contents after every step.
C39_ServersEquivalent ==
    [][/\ lifespan_startup <=> standalone_lifespan_startup
       /\ \A sid \in CreateIds, ms \in Clock :
             create_session(sid, ms) <=> standalone_create_session(sid, ms)
       /\ \A sid \in CloseIds :
             close_session(sid) <=> standalone_close_session(sid)
       /\ \A sid \in ActionIds, ms \in Clock, key \in BOOLEAN :
             run_agent_task(sid, ms, key)
                <=> standalone_run_agent_task(sid, ms, key)
       /\ list_sessions <=> standalone_list_sessions
       /\ \A tid \in TaskIds :
             get_agent_task_status(tid)
                <=> standalone_get_agent_task_status(tid)
       /\ \A i \in Reqs :
             /\ \A outcome \in StartOutcomes :
                   ResumeStart(i, outcome)
                      <=> standalone_ResumeStart(i, outcome)
             /\ \A ok \in BOOLEAN :
                   /\ ResumeAgentClose(i, ok)
                         <=> standalone_ResumeAgentClose(i, ok)
                   /\ ResumeStop(i, ok) <=> standalone_ResumeStop(i, ok)
                   /\ ResumeList(i, ok) <=> standalone_ResumeList(i, ok)
                   /\ BgFinish(i, ok) <=> standalone_BgFinish(i, ok)
             /\ BgStart(i) <=> standalone_BgStart(i)
       /\ lifespan_shutdown <=> standalone_lifespan_shutdown
       /\ \A ok \in BOOLEAN :
             ResumeCleanup(ok) <=> standalone_ResumeCleanup(ok)]_vars

\* the shared operations have all acted: a session was created and
\* closed, a task launched on the auto-provisioned "default" has run to
\* its end, and cleanup has closed its agent and stopped a handle
C39_Witness ==
    /\ phase = "stopped"
    /\ stop.closed # {}
    /\ stop.stopped # {}
    /\ \E i, j, k \in Reqs :
          /\ reqs[i].op = "create_session"
          /\ reqs[i].status = 200
          /\ reqs[j].op = "close_session"
          /\ reqs[j].status = 200
          /\ reqs[k].op = "run_agent_task"
          /\ reqs[k].status = 200
          /\ reqs[k].new # 0
          /\ reqs[k].pc = "done"
====
